---------------------------- MODULE Spec2Model ----------------------------
(***************************************************************************)
(* A model of x2node-validators: the record normalizer (traversal engine), *)
(* the validation context, the error sink, the message resolver, the       *)
(* validators registry built by createValidators, and the standard         *)
(* validators the examples of the manual use.                              *)
(*                                                                         *)
(* Conventions.  A JavaScript value is a record tagged by t.  Strings      *)
(* whose characters the code inspects (record values, language tags,       *)
(* validation set names) are sequences of one-character strings; names     *)
(* that the code only compares or concatenates (property names, pointer    *)
(* tokens, message texts) are TLA+ strings.  An object or array that the   *)
(* code holds by reference is held here by its path from the record root.  *)
(***************************************************************************)
EXTENDS Integers, Sequences, FiniteSets, TLC

VARIABLES
    lib,        \* the record types library handed to normalizeRecord
    record,     \* the record object the caller holds (mutated in place)
    call,       \* the last normalizeRecord call: arguments, outcome, history
    prev,       \* the call before it
    cv,         \* createValidators at work on one validation set
    mr,         \* a MessageResolver and the last template it rendered
    ve,         \* a ValidationErrors object and the addError calls made on it
    ae          \* a validation context and the addErrorFor calls made on it

vars == <<lib, record, call, prev, cv, mr, ve, ae>>

(***************************************************************************)
(* Bounds of the model.                                                    *)
(***************************************************************************)
MaxStrLen == 2
MaxSpecs == 4
MaxLangs == 2

(***************************************************************************)
(* JavaScript values.                                                      *)
(***************************************************************************)
\* const v = ...; the value is computed once and named in what follows
With(v, F(_)) == F(v)

Undefined == [t |-> "undefined"]
Null == [t |-> "null"]
Str(s) == [t |-> "string", s |-> s]
\* a number: the integer n, or n + 1/2
Num(n) == [t |-> "number", n |-> n, int |-> TRUE]
NumAndHalf(n) == [t |-> "number", n |-> n, int |-> FALSE]
Bool(b) == [t |-> "boolean", b |-> b]
Arr(a) == [t |-> "array", a |-> a]
\* an object: its own keys in insertion order, and their values
Obj(k, o) == [t |-> "object", k |-> k, o |-> o]
EmptyObj == Obj(<<>>, <<>>)

\* typeof
TypeOf(v) ==
    CASE v.t = "undefined" -> "undefined"
      [] v.t = "string" -> "string"
      [] v.t = "number" -> "number"
      [] v.t = "boolean" -> "boolean"
      [] v.t = "function" -> "function"
      [] OTHER -> "object"

IsNullish(v) == v.t \in {"undefined", "null"}
IsComposite(v) == v.t \in {"array", "object"}

\* Object.keys(v) for an object or an array
Keys(v) ==
    CASE v.t = "object" -> v.k
      [] v.t = "array" -> [i \in 1..Len(v.a) |-> ToString(i - 1)]
      [] OTHER -> <<>>

HasKey(v, key) == \E i \in 1..Len(Keys(v)) : Keys(v)[i] = key

\* v[key]
GetProp(v, key) ==
    CASE v.t = "object" /\ HasKey(v, key) -> v.o[key]
      [] v.t = "array" /\ HasKey(v, key) ->
            v.a[CHOOSE i \in 1..Len(v.a) : ToString(i - 1) = key]
      [] OTHER -> Undefined

\* v[key] = x (on an object, or on an existing index of an array)
SetProp(v, key, x) ==
    CASE v.t = "object" /\ HasKey(v, key) -> [v EXCEPT !.o[key] = x]
      [] v.t = "object" ->
            [v EXCEPT !.k = Append(@, key), !.o = (key :> x) @@ @]
      [] v.t = "array" /\ HasKey(v, key) ->
            [v EXCEPT !.a[CHOOSE i \in 1..Len(v.a) : ToString(i - 1) = key] = x]
      [] OTHER -> v

RECURSIVE GetPath(_, _)
\* the value a reference (a path from the root) designates
GetPath(root, path) ==
    IF path = <<>> THEN root
    ELSE GetPath(GetProp(root, Head(path)), Tail(path))

RECURSIVE SetPath(_, _, _)
\* the root after an assignment through a reference
SetPath(root, path, x) ==
    IF path = <<>> THEN x
    ELSE SetProp(root, Head(path),
                 SetPath(GetProp(root, Head(path)), Tail(path), x))

\* a !== b for two values met in one slot.  No validator of the model allocates
\* an object or array, so two composite values of one slot are one reference.
StrictNotEqual(a, b) ==
    IF IsComposite(a) /\ IsComposite(b) THEN FALSE ELSE a # b

\* a === b for the values of two slots: two objects or arrays are never one
StrictEqualSlots(a, b) == ~IsComposite(a) /\ a = b

(***************************************************************************)
(* JavaScript strings: sequences of characters.  A message text may be     *)
(* written in longer pieces where no pattern of the code looks inside.     *)
(***************************************************************************)
UpperChars == <<"A", "B", "C", "D", "E", "F", "G", "H", "I", "J", "K", "L", "M", "N", "O", "P", "Q", "R", "S", "T", "U", "V", "W", "X", "Y", "Z">>
LowerChars == <<"a", "b", "c", "d", "e", "f", "g", "h", "i", "j", "k", "l", "m", "n", "o", "p", "q", "r", "s", "t", "u", "v", "w", "x", "y", "z">>
DigitChars == <<"0", "1", "2", "3", "4", "5", "6", "7", "8", "9">>
WhiteSpace == {" ", "\t"}

Range(s) == {s[i] : i \in 1..Len(s)}

ToLowerChar(c) ==
    IF \E i \in 1..Len(UpperChars) : UpperChars[i] = c
    THEN LowerChars[CHOOSE i \in 1..Len(UpperChars) : UpperChars[i] = c]
    ELSE c

ToUpperChar(c) ==
    IF \E i \in 1..Len(LowerChars) : LowerChars[i] = c
    THEN UpperChars[CHOOSE i \in 1..Len(LowerChars) : LowerChars[i] = c]
    ELSE c

\* String.prototype.toLowerCase / toUpperCase
ToLowerCase(s) == [i \in 1..Len(s) |-> ToLowerChar(s[i])]
ToUpperCase(s) == [i \in 1..Len(s) |-> ToUpperChar(s[i])]

RECURSIVE TrimLeft(_)
TrimLeft(s) ==
    IF s # <<>> /\ Head(s) \in WhiteSpace THEN TrimLeft(Tail(s)) ELSE s

RECURSIVE TrimRight(_)
TrimRight(s) ==
    IF s # <<>> /\ s[Len(s)] \in WhiteSpace
    THEN TrimRight(SubSeq(s, 1, Len(s) - 1))
    ELSE s

\* s.replace(/^\s+|\s+$/g, '') and String.prototype.trim
TrimString(s) == TrimRight(TrimLeft(s))

\* s.startsWith(p)
StartsWith(s, p) == Len(s) >= Len(p) /\ SubSeq(s, 1, Len(p)) = p

\* s.substring(n)
SubstringFrom(s, n) == SubSeq(s, n + 1, Len(s))

RECURSIVE SplitOn(_, _)
\* s.split(sep) for a one-character separator
SplitOn(s, sep) ==
    IF \E i \in 1..Len(s) : s[i] = sep
    THEN LET i == CHOOSE j \in 1..Len(s) :
                      s[j] = sep /\ \A k \in 1..(j - 1) : s[k] # sep
         IN  <<SubSeq(s, 1, i - 1)>> \o SplitOn(SubSeq(s, i + 1, Len(s)), sep)
    ELSE <<s>>

\* s.split(/\s*,\s*/): the white space around each comma goes with the comma
SplitCommaList(s) ==
    LET parts == SplitOn(s, ",")
    IN  [i \in 1..Len(parts) |->
            LET l == IF i > 1 THEN TrimLeft(parts[i]) ELSE parts[i]
            IN  IF i < Len(parts) THEN TrimRight(l) ELSE l]

\* the characters of the model in the order of their codes
CharCodes == <<"\t", " ", "%", "'", "+", ",", "-", ".", "/">> \o DigitChars
                \o <<":", ";", "=", "@">> \o UpperChars \o <<"_">> \o LowerChars
CharCode(c) == CHOOSE i \in 1..Len(CharCodes) : CharCodes[i] = c

RECURSIVE StrLess(_, _)
\* a < b on strings
StrLess(a, b) ==
    IF b = <<>> THEN FALSE
    ELSE IF a = <<>> THEN TRUE
    ELSE IF Head(a) = Head(b) THEN StrLess(Tail(a), Tail(b))
    ELSE CharCode(Head(a)) < CharCode(Head(b))

RECURSIVE Join(_)
\* the text of a string, its characters run together
Join(s) == IF s = <<>> THEN "" ELSE Head(s) \o Join(Tail(s))

(***************************************************************************)
(* lib/validation-errors.js: the errors object.  Its own enumerable         *)
(* properties are the pointers reported; each holds the list of messages.  *)
(***************************************************************************)
NoErrors == [k \in {} |-> <<>>]

\* an addError that keeps only the last message of a key
VE_addErrorLastOnly(errors, errorKey, message) ==
    (errorKey :> <<message>>) @@ errors

\* ValidationErrors.addError(ptr, message)
VE_addError(errors, errorKey, message) ==
    IF errorKey \in DOMAIN errors
    THEN [errors EXCEPT ![errorKey] = Append(@, message)]
    ELSE (errorKey :> <<message>>) @@ errors

\* ValidationErrors.hasErrors(ptr)
VE_hasErrors(errors, errorKey) ==
    errorKey \in DOMAIN errors /\ Len(errors[errorKey]) > 0

\* ValidationErrors.isEmpty()
VE_isEmpty(errors) == Cardinality(DOMAIN errors) = 0

(***************************************************************************)
(* Number(s) for the decimal numerals a q-value is written with: the value *)
(* is n / 10^k.  Any other text is NaN.                                    *)
(***************************************************************************)
NaN == [nan |-> TRUE, n |-> 0, k |-> 0]
Decimal(n, k) == [nan |-> FALSE, n |-> n, k |-> k]

IsDigits(s) == \A i \in 1..Len(s) : \E d \in 1..Len(DigitChars) : DigitChars[d] = s[i]
DigitValue(c) == (CHOOSE d \in 1..Len(DigitChars) : DigitChars[d] = c) - 1

RECURSIVE DigitsValue(_)
DigitsValue(s) ==
    IF s = <<>> THEN 0 ELSE 10 * DigitsValue(SubSeq(s, 1, Len(s) - 1)) + DigitValue(s[Len(s)])

RECURSIVE Pow10(_)
Pow10(k) == IF k = 0 THEN 1 ELSE 10 * Pow10(k - 1)

ToNumber(s) ==
    LET t == TrimString(s)
        neg == t # <<>> /\ Head(t) = "-"
        u == IF t # <<>> /\ Head(t) \in {"-", "+"} THEN Tail(t) ELSE t
        parts == SplitOn(u, ".")
        sign == IF neg THEN -1 ELSE 1
    IN  CASE t = <<>> -> Decimal(0, 0)
          [] Len(parts) = 1 /\ u # <<>> /\ IsDigits(u) -> Decimal(sign * DigitsValue(u), 0)
          [] Len(parts) = 2 /\ IsDigits(parts[1]) /\ IsDigits(parts[2])
                /\ Len(parts[1]) + Len(parts[2]) > 0 ->
                Decimal(sign * (DigitsValue(parts[1]) * Pow10(Len(parts[2])) + DigitsValue(parts[2])),
                        Len(parts[2]))
          [] OTHER -> NaN

\* a < b and a > b on numbers; every comparison with NaN is false
NumLess(a, b) == ~a.nan /\ ~b.nan /\ a.n * Pow10(b.k) < b.n * Pow10(a.k)
NumGreater(a, b) == NumLess(b, a)

(***************************************************************************)
(* lib/message-resolver.js                                                 *)
(***************************************************************************)
QMarker == <<";", "q", "=">>

\* l.match(/^(.*?)(?:;q=(.*))?$/): the tag ends where the first ";q=" starts
ParseLangEntry(l) ==
    IF \E i \in 1..Len(l) : StartsWith(SubstringFrom(l, i - 1), QMarker)
    THEN LET i == CHOOSE j \in 1..Len(l) :
                      /\ StartsWith(SubstringFrom(l, j - 1), QMarker)
                      /\ \A h \in 1..(j - 1) : ~StartsWith(SubstringFrom(l, h - 1), QMarker)
         IN  [lang |-> SubSeq(l, 1, i - 1),
              qvalue |-> ToNumber(SubstringFrom(l, i + 2))]
    ELSE [lang |-> l, qvalue |-> Decimal(1, 0)]

RECURSIVE SortLangs(_)
\* Array.prototype.sort with the comparator of the constructor (a stable sort)
SortLangs(ls) ==
    IF ls = <<>> THEN <<>>
    ELSE LET rest == SortLangs(SubSeq(ls, 1, Len(ls) - 1))
             x == ls[Len(ls)]
             \* x goes after every entry that does not compare greater than it
             before == SelectSeq(rest, LAMBDA y : ~NumGreater(y.qvalue, x.qvalue))
             after == SelectSeq(rest, LAMBDA y : NumGreater(y.qvalue, x.qvalue))
         IN  before \o <<x>> \o after

\* new MessageResolver(lang): this._langs
MessageResolver(lang) ==
    LET entries == SplitCommaList(TrimString(lang))
        parsed == [i \in 1..Len(entries) |-> ParseLangEntry(entries[i])]
        kept == SelectSeq(parsed,
                    LAMBDA l : l.lang # <<"*">> /\ NumGreater(l.qvalue, Decimal(0, 0)))
        sorted == SortLangs(kept)
    IN  [i \in 1..Len(sorted) |-> ToLowerCase(sorted[i].lang)]

\* a value used as a condition
Truthy(v) ==
    CASE v.t \in {"undefined", "null"} -> FALSE
      [] v.t = "string" -> v.s # <<>>
      [] v.t = "number" -> v.n # 0 \/ ~v.int
      [] v.t = "boolean" -> v.b
      [] OTHER -> TRUE

\* a _findMessageTemplate that falls back to the last template of the object
FindMessageTemplateLast(langs, messageTmpls) ==
    LET hits == SelectSeq(langs, LAMBDA l : Truthy(GetProp(messageTmpls, Join(l))))
    IN  IF hits # <<>> THEN GetProp(messageTmpls, Join(Head(hits)))
        ELSE IF Keys(messageTmpls) # <<>>
        THEN GetProp(messageTmpls, Keys(messageTmpls)[Len(Keys(messageTmpls))])
        ELSE Undefined

\* MessageResolver._findMessageTemplate(messageTmpls)
FindMessageTemplate(langs, messageTmpls) ==
    LET hits == SelectSeq(langs, LAMBDA l : Truthy(GetProp(messageTmpls, Join(l))))
    IN  IF hits # <<>> THEN GetProp(messageTmpls, Join(Head(hits)))
        ELSE IF Keys(messageTmpls) # <<>> THEN GetProp(messageTmpls, Head(Keys(messageTmpls)))
        ELSE Undefined

RECURSIVE ToStr(_)
\* String(v)
ToStr(v) ==
    CASE v.t = "undefined" -> <<"undefined">>
      [] v.t = "null" -> <<"null">>
      [] v.t = "string" -> v.s
      [] v.t = "number" -> IF v.int THEN <<ToString(v.n)>> ELSE <<ToString(v.n), ".", "5">>
      [] v.t = "boolean" -> IF v.b THEN <<"true">> ELSE <<"false">>
      [] v.t = "array" ->
            IF v.a = <<>> THEN <<>>
            ELSE IF Len(v.a) = 1 THEN (IF IsNullish(v.a[1]) THEN <<>> ELSE ToStr(v.a[1]))
            ELSE ToStr(Arr(SubSeq(v.a, 1, Len(v.a) - 1))) \o <<",">>
                    \o (IF IsNullish(v.a[Len(v.a)]) THEN <<>> ELSE ToStr(v.a[Len(v.a)]))
      [] OTHER -> <<"[object Object]">>

\* where the next match of /\$\{([^}]+)\}/ in s starts, at or after from; 0 if none
NextPlaceholder(s, from) ==
    LET starts == {i \in from..(Len(s) - 3) :
                      /\ s[i] = "$" /\ s[i + 1] = "{" /\ s[i + 2] # "}"
                      /\ \E j \in (i + 3)..Len(s) : s[j] = "}"}
    IN  IF starts = {} THEN 0 ELSE CHOOSE i \in starts : \A h \in starts : i <= h

RECURSIVE ReplaceFrom(_, _, _)
ReplaceFrom(s, from, params) ==
    LET i == NextPlaceholder(s, from)
    IN  IF i = 0 THEN SubSeq(s, from, Len(s))
        ELSE LET j == CHOOSE c \in (i + 3)..Len(s) :
                          s[c] = "}" /\ \A h \in (i + 3)..(c - 1) : s[h] # "}"
                 name == Join(SubSeq(s, i + 2, j - 1))
             IN  SubSeq(s, from, i - 1) \o ToStr(GetProp(params, name))
                    \o ReplaceFrom(s, j + 1, params)

\* MessageResolver._replaceParams(messageTmpl, params)
ReplaceParams(messageTmpl, params) ==
    IF messageTmpl.t = "string" THEN Str(ReplaceFrom(messageTmpl.s, 1, params))
    ELSE messageTmpl

\* MessageResolver.renderMessage(messageTmpls, params)
RenderMessage(langs, messageTmpls, params) ==
    With(IF TypeOf(messageTmpls) = "string" THEN messageTmpls
         ELSE FindMessageTemplate(langs, messageTmpls),
         LAMBDA messageTmpl :
            IF Truthy(params) THEN ReplaceParams(messageTmpl, params) ELSE messageTmpl)

\* /^\{.+\}$/.test(message)
IsMessageId(message) ==
    Len(message) >= 3 /\ message[1] = "{" /\ message[Len(message)] = "}"

\* MessageResolver.getMessage(messagesStore, message, params)
GetMessage(langs, messagesStore, message, params) ==
    LET id == Join(SubSeq(message, 2, Len(message) - 1))
        messageTmpls ==
            IF IsMessageId(message)
            THEN (IF Truthy(GetProp(messagesStore, id)) THEN GetProp(messagesStore, id)
                  ELSE GetProp(messagesStore, "*"))
            ELSE Str(message)
    IN  RenderMessage(langs, messageTmpls, params)

\* an object literal: << <<key, value>>, ... >>
ObjOf(pairs) ==
    Obj([i \in 1..Len(pairs) |-> pairs[i][1]],
        [key \in {pairs[i][1] : i \in 1..Len(pairs)} |->
            pairs[CHOOSE i \in 1..Len(pairs) : pairs[i][1] = key][2]])

\* one message of the standard catalog: { 'en-US': text }
EnUS(text) == ObjOf(<< <<"en-US", Str(text)>> >>)

(***************************************************************************)
(* lib/standard.js: the standard validation error messages.                *)
(***************************************************************************)
VALIDATION_ERROR_MESSAGES ==
    ObjOf(<<
        <<"*", EnUS(<<"Invalid.">>)>>,
        <<"missing", EnUS(<<"Missing value.">>)>>,
        <<"invalidType", EnUS(<<"Missing or invalid type.">>)>>,
        <<"notEmpty", EnUS(<<"Expected to be empty.">>)>>,
        <<"invalidValueType",
            EnUS(<<"Invalid value type ", "$", "{", "actual", "}", ", expected ",
                   "$", "{", "expected", "}", ".">>)>>,
        <<"invalidValue", EnUS(<<"Invalid value.">>)>>,
        <<"invalidNumber", EnUS(<<"Not a number.">>)>>,
        <<"invalidInteger", EnUS(<<"Not an integer.">>)>>,
        <<"invalidPattern", EnUS(<<"Does not match the pattern.">>)>>,
        <<"notArray", EnUS(<<"Not an array.">>)>>,
        <<"duplicates", EnUS(<<"Contains duplicates.">>)>>,
        <<"tooLong", EnUS(<<"Too long.">>)>>,
        <<"tooShort", EnUS(<<"Too short.">>)>>,
        <<"tooLarge", EnUS(<<"Too large.">>)>>,
        <<"tooSmall", EnUS(<<"Too small.">>)>>,
        <<"outOfRange", EnUS(<<"Out of range.">>)>>,
        <<"invalidEmail", EnUS(<<"Invalid e-mail address.">>)>>,
        <<"invalidTime", EnUS(<<"Invalid time.">>)>>,
        <<"invalidRangeDef",
            EnUS(<<"Must be greater than ", "$", "{", "rangeLoName", "}", ".">>)>>,
        <<"missingNeeded",
            EnUS(<<"Requires non-empty ", "$", "{", "prop", "}", ".">>)>>,
        <<"invalidNeeded",
            EnUS(<<"Requires ", "$", "{", "prop", "}", " to be ",
                   "$", "{", "expected", "}", ".">>)>>,
        <<"conflictingPresent",
            EnUS(<<"Conflicts with non-empty ", "$", "{", "prop", "}", ".">>)>>,
        <<"conflictingValue",
            EnUS(<<"Does not allow ", "$", "{", "prop", "}", " to be ",
                   "$", "{", "value", "}", ".">>)>>,
        <<"missingWhen", EnUS(<<"Required with ", "$", "{", "prop", "}", ".">>)>>,
        <<"missingWhenValue",
            EnUS(<<"Requried when ", "$", "{", "prop", "}", " is ",
                   "$", "{", "value", "}", ".">>)>>,
        <<"missingWhenPattern",
            EnUS(<<"Required when ", "$", "{", "prop", "}", " has the provided value.">>)>>,
        <<"missingWhenNot",
            EnUS(<<"Required when ", "$", "{", "prop", "}", " is empty.">>)>>,
        <<"missingWhenNotValue",
            EnUS(<<"Required when ", "$", "{", "prop", "}", " is not ",
                   "$", "{", "value", "}", ".">>)>>,
        <<"notEmptyWhen",
            EnUS(<<"Expected to be empty with ", "$", "{", "prop", "}", ".">>)>>,
        <<"notEmptyWhenNot",
            EnUS(<<"Expected to be empty when ", "$", "{", "prop", "}", " is empty.">>)>>,
        <<"notEmptyWhenValue",
            EnUS(<<"Expected to be empty when ", "$", "{", "prop", "}", " is ",
                   "$", "{", "value", "}", ".">>)>>,
        <<"notEmptyWhenNotValue",
            EnUS(<<"Expected to be empty when ", "$", "{", "prop", "}", " is not ",
                   "$", "{", "value", "}", ".">>)>>
    >>)

(***************************************************************************)
(* Descriptors (x2node-records), as the code of this module reads them.    *)
(* A container lists its properties in declaration order; a polymorphic    *)
(* container names its type property and holds one pseudo-property per     *)
(* subtype.                                                                *)
(***************************************************************************)
\* container.allPropertyNames
AllPropertyNames(container) == [i \in 1..Len(container.props) |-> container.props[i].name]

\* container.hasProperty(name)
HasProperty(container, name) == \E i \in 1..Len(container.props) : container.props[i].name = name

\* container.getPropertyDesc(name)
GetPropertyDesc(container, name) ==
    container.props[CHOOSE i \in 1..Len(container.props) : container.props[i].name = name]

\* propDesc.isArray(), isMap(), isScalar()
IsArrayProp(propDesc) == propDesc.card = "array"
IsMapProp(propDesc) == propDesc.card = "map"
IsScalarProp(propDesc) == propDesc.card = "scalar"

(***************************************************************************)
(* Record element pointers (x2node-pointers), as the code uses them: a     *)
(* pointer knows its tokens, the descriptor of the property it points at   *)
(* (none at the root) and whether it points at a collection element.       *)
(***************************************************************************)
NullDesc == [null |-> TRUE]
\* container, sub: propDesc.container, and the name of the subtype when that
\* container is the one of a subtype of a polymorphic object
RootPointer ==
    [tokens |-> <<>>, desc |-> NullDesc, elem |-> FALSE, valid |-> TRUE,
     container |-> NullDesc, sub |-> ""]

RECURSIVE PtrStr(_)
\* ptr.toString(): the JSON pointer
PtrStr(tokens) ==
    IF tokens = <<>> THEN ""
    ELSE PtrStr(SubSeq(tokens, 1, Len(tokens) - 1)) \o "/" \o tokens[Len(tokens)]

\* the own properties of a container that a token names
DirectTargets(container, token) ==
    {i \in 1..Len(container.props) :
        ~container.props[i].subtype /\ container.props[i].name = token}

\* the properties of its subtypes that a token 'Subtype:name' names
SubtypeTargets(container, token) ==
    UNION {
        {<<i, n>> : n \in {m \in 1..Len(container.props[i].nestedProperties.props) :
            container.props[i].name \o ":"
                \o container.props[i].nestedProperties.props[m].name = token}} :
        i \in {j \in 1..Len(container.props) : container.props[j].subtype}}

\* ptr.createChildPointer(token)
CreateChildPointer(recordTypeDesc, ptr, token) ==
    LET childTokens == Append(ptr.tokens, token)
        container == IF ptr.tokens = <<>> THEN recordTypeDesc
                     ELSE ptr.desc.nestedProperties
        direct == DirectTargets(container, token)
        viaSubtype == SubtypeTargets(container, token)
    IN  IF ~ptr.valid THEN [ptr EXCEPT !.tokens = childTokens]
        ELSE IF ptr.tokens # <<>> /\ ptr.desc.card # "scalar" /\ ~ptr.elem
        THEN [tokens |-> childTokens, desc |-> ptr.desc, elem |-> TRUE, valid |-> TRUE,
              container |-> ptr.container, sub |-> ptr.sub]
        ELSE IF direct # {}
        THEN [tokens |-> childTokens, desc |-> container.props[CHOOSE i \in direct : TRUE],
              elem |-> FALSE, valid |-> TRUE, container |-> container, sub |-> ""]
        ELSE IF viaSubtype # {}
        THEN LET x == CHOOSE y \in viaSubtype : TRUE
             IN  [tokens |-> childTokens,
                  desc |-> container.props[x[1]].nestedProperties.props[x[2]],
                  elem |-> FALSE, valid |-> TRUE,
                  container |-> container.props[x[1]].nestedProperties,
                  sub |-> container.props[x[1]].name]
        ELSE [tokens |-> childTokens, desc |-> NullDesc, elem |-> FALSE, valid |-> FALSE,
              container |-> NullDesc, sub |-> ""]

RECURSIVE ParsePointer(_, _)
\* pointers.parse(recordTypeDesc, string), the string given by its tokens
ParsePointer(recordTypeDesc, tokens) ==
    IF tokens = <<>> THEN RootPointer
    ELSE CreateChildPointer(recordTypeDesc,
            ParsePointer(recordTypeDesc, SubSeq(tokens, 1, Len(tokens) - 1)),
            tokens[Len(tokens)])

\* ptr.parent
ParentPointer(recordTypeDesc, ptr) ==
    ParsePointer(recordTypeDesc, SubSeq(ptr.tokens, 1, Len(ptr.tokens) - 1))

(***************************************************************************)
(* lib/validation-context.js                                               *)
(***************************************************************************)
\* new ValidationContext(recordTypes, recordTypeDesc, messageResolver, validationSets),
\* with the record it works on and the history of the call
NewContext(recordTypeDesc, langs, sets, rec) ==
    [recordTypeDesc |-> recordTypeDesc,
     messageResolver |-> langs,
     validationSets |-> sets,
     curPointer |-> RootPointer,
     pointerStack |-> <<>>,
     containersChain |-> <<>>,
     result |-> NoErrors,
     record |-> rec,
     depsErrors |-> {},
     thrown |-> "none",
     log |-> <<>>]

\* a descend that extends the root pointer, not the current one
DescendFromRoot(ctx, pointerToken, containerObj) ==
    [ctx EXCEPT !.pointerStack = Append(@, ctx.curPointer),
                !.curPointer = CreateChildPointer(ctx.recordTypeDesc, RootPointer, pointerToken),
                !.containersChain = Append(@, containerObj)]

\* ctx.descend(pointerToken, containerObj)
Descend(ctx, pointerToken, containerObj) ==
    [ctx EXCEPT !.pointerStack = Append(@, ctx.curPointer),
                !.curPointer = CreateChildPointer(ctx.recordTypeDesc, ctx.curPointer, pointerToken),
                !.containersChain = Append(@, containerObj)]

\* an ascend that pops the pointer and leaves the containers chain as it is
AscendPointerOnly(ctx) ==
    [ctx EXCEPT !.curPointer = ctx.pointerStack[Len(ctx.pointerStack)],
                !.pointerStack = SubSeq(@, 1, Len(@) - 1)]

\* ctx.ascend()
Ascend(ctx) ==
    [ctx EXCEPT !.curPointer = ctx.pointerStack[Len(ctx.pointerStack)],
                !.pointerStack = SubSeq(@, 1, Len(@) - 1),
                !.containersChain = SubSeq(@, 1, Len(@) - 1)]

\* ctx.isValidationSet(setId)
IsValidationSet(ctx, setId) == setId \in ctx.validationSets

\* title.charAt(0).toUpperCase() + title.substring(1)
Capitalize(s) == IF s = <<>> THEN <<>> ELSE <<ToUpperChar(Head(s))>> \o Tail(s)

\* a paramsWithTitle that is the caller's object itself
ParamsInPlace(params, title) ==
    [own |-> EmptyObj,
     proto |-> SetProp(SetProp(IF Truthy(params) THEN params ELSE EmptyObj, "field", title),
                       "Field", Str(Capitalize(title.s))),
     caller |-> IF Truthy(params)
                THEN SetProp(SetProp(params, "field", title),
                             "Field", Str(Capitalize(title.s)))
                ELSE params]

\* paramsWithTitle: (params ? Object.create(params) : new Object()) with its
\* own 'field' and 'Field'; caller is the object of the caller after that
ParamsWithTitle(params, title) ==
    [own |-> ObjOf(<< <<"field", title>>, <<"Field", Str(Capitalize(title.s))>> >>),
     proto |-> IF Truthy(params) THEN params ELSE EmptyObj,
     caller |-> params]

\* the properties read off an object: its own, then those of its prototype
Inherited(p) ==
    LET over[i \in 0..Len(p.own.k)] ==
            IF i = 0 THEN p.proto
            ELSE SetProp(over[i - 1], p.own.k[i], p.own.o[p.own.k[i]])
    IN  over[Len(p.own.k)]

\* ctx.addErrorFor(ptr, message, params)
AddErrorFor(ctx, ptr, message, params) ==
    LET subjDesc == IF ptr.tokens = <<>> THEN ctx.recordTypeDesc ELSE ptr.desc
    IN  IF ~ptr.valid THEN [ctx EXCEPT !.thrown = "X2SyntaxError"]
        ELSE With(RenderMessage(ctx.messageResolver, subjDesc.title, Undefined),
                  LAMBDA title :
             IF TypeOf(title) # "string" THEN [ctx EXCEPT !.thrown = "TypeError"]
             ELSE With(GetMessage(ctx.messageResolver, subjDesc.validationErrorMessages,
                                  message,
                                  Inherited(ParamsWithTitle(params, title))),
                       LAMBDA text :
                  [ctx EXCEPT !.result =
                      VE_addError(@, PtrStr(ptr.tokens),
                                  IF text.t = "string" THEN Join(text.s)
                                  ELSE "undefined")]))

\* ctx.addError(message, params)
AddError(ctx, message, params) == AddErrorFor(ctx, ctx.curPointer, message, params)

\* ctx.getElementTitle(ptr)
GetElementTitle(ctx, ptr) ==
    RenderMessage(ctx.messageResolver,
                  (IF ptr.tokens = <<>> THEN ctx.recordTypeDesc ELSE ptr.desc).title,
                  Undefined)

\* ctx.hasErrorsFor(ptr)
HasErrorsFor(ctx, ptrString) == VE_hasErrors(ctx.result, ptrString)

\* ctx.isEmpty(val)
CtxIsEmpty(val) == val.t = "undefined" \/ val.t = "null"

\* a getResult that hands out the errors object whatever it holds
GetResultUnchecked(ctx) == [t |-> "errors", e |-> ctx.result]

\* ctx.getResult(): null, or the errors object
GetResult(ctx) == IF VE_isEmpty(ctx.result) THEN Null ELSE [t |-> "errors", e |-> ctx.result]

(***************************************************************************)
(* lib/standard.js: the standard validators.  A validator takes the        *)
(* parameters bound to it, the context and the value, and gives back the   *)
(* context (with what it reported) and the value (as it normalized it).    *)
(***************************************************************************)
RV(ctx, value) == [ctx |-> ctx, value |-> value]
Throw(ctx, value) == RV([ctx EXCEPT !.thrown = "TypeError"], value)

\* a < b for two numbers, or for two strings (false for any other pair of one type)
JsLess(a, b) ==
    CASE a.t = "number" /\ b.t = "number" ->
            2 * a.n + (IF a.int THEN 0 ELSE 1) < 2 * b.n + (IF b.int THEN 0 ELSE 1)
      [] a.t = "string" /\ b.t = "string" -> StrLess(a.s, b.s)
      [] OTHER -> FALSE

\* a message id in curly braces
MsgId(id) == <<"{", id, "}">>

\* isEmpty(ptr, propDesc, value) reads propDesc.isArray() of a null descriptor
IsEmptyThrows(ptr, value) == ~IsNullish(value) /\ ptr.tokens = <<>>

\* an isEmpty that knows the absent values only
IsEmptyNullish(ptr, propDesc, value) == IsNullish(value)

\* isEmpty(ptr, propDesc, value)
IsEmpty(ptr, propDesc, value) ==
    IF IsNullish(value) THEN TRUE
    ELSE IF IsArrayProp(propDesc) /\ ~ptr.elem /\ value.t = "array"
    THEN Len(value.a) = 0
    ELSE IF IsMapProp(propDesc) /\ ~ptr.elem /\ TypeOf(value) = "object"
    THEN Len(Keys(value)) = 0
    ELSE IF (IsScalarProp(propDesc) \/ ptr.elem)
            /\ propDesc.scalarValueType = "string" /\ TypeOf(value) = "string"
    THEN Len(value.s) = 0
    ELSE FALSE

V_required(params, ctx, value) ==
    IF IsEmptyThrows(ctx.curPointer, value) THEN Throw(ctx, value)
    ELSE IF IsEmpty(ctx.curPointer, ctx.curPointer.desc, value)
    THEN RV(AddError(ctx, MsgId("missing"), Undefined), value)
    ELSE RV(ctx, value)

V_empty(params, ctx, value) ==
    IF IsEmptyThrows(ctx.curPointer, value) THEN Throw(ctx, value)
    ELSE IF ~IsEmpty(ctx.curPointer, ctx.curPointer.desc, value)
    THEN RV(AddError(ctx, MsgId("notEmpty"), Undefined), value)
    ELSE RV(ctx, value)

\* a hasMatchingSibling that finds no match in a sibling with errors, whatever
\* the validator asks for
HasMatchingSiblingNoneOnErrors(ctx, propName, testValue, whenErrors) ==
    IF ctx.curPointer.tokens = <<>> THEN [thrown |-> "TypeError", res |-> FALSE]
    ELSE IF ~HasProperty(ctx.curPointer.container, Join(ToStr(propName)))
    THEN [thrown |-> "X2UsageError", res |-> FALSE]
    ELSE With(CreateChildPointer(ctx.recordTypeDesc,
                  ParentPointer(ctx.recordTypeDesc, ctx.curPointer),
                  IF ctx.curPointer.sub # ""
                  THEN ctx.curPointer.sub \o ":" \o Join(ToStr(propName))
                  ELSE Join(ToStr(propName))), LAMBDA propPtr :
         IF ~propPtr.valid THEN [thrown |-> "X2SyntaxError", res |-> FALSE]
         ELSE IF HasErrorsFor(ctx, PtrStr(propPtr.tokens))
         THEN [thrown |-> "none", res |-> FALSE]
         ELSE With(GetProp(GetPath(ctx.record,
                                   ctx.containersChain[Len(ctx.containersChain)]),
                           Join(ToStr(propName))), LAMBDA propValue :
              [thrown |-> "none",
               res |-> IF testValue.t # "undefined"
                       THEN StrictEqualSlots(propValue, testValue)
                       ELSE ~IsEmpty(propPtr,
                                     GetPropertyDesc(ctx.curPointer.container,
                                                     Join(ToStr(propName))),
                                     propValue)]))

\* hasMatchingSibling(ctx, propName, testValue, whenErrors): what it returns, or
\* the error it throws (no test value of the model is a RegExp)
HasMatchingSibling(ctx, propName, testValue, whenErrors) ==
    IF ctx.curPointer.tokens = <<>> THEN [thrown |-> "TypeError", res |-> FALSE]
    ELSE IF ~HasProperty(ctx.curPointer.container, Join(ToStr(propName)))
    THEN [thrown |-> "X2UsageError", res |-> FALSE]
    ELSE With(CreateChildPointer(ctx.recordTypeDesc,
                  ParentPointer(ctx.recordTypeDesc, ctx.curPointer),
                  IF ctx.curPointer.sub # ""
                  THEN ctx.curPointer.sub \o ":" \o Join(ToStr(propName))
                  ELSE Join(ToStr(propName))), LAMBDA propPtr :
         IF ~propPtr.valid THEN [thrown |-> "X2SyntaxError", res |-> FALSE]
         ELSE IF HasErrorsFor(ctx, PtrStr(propPtr.tokens))
         THEN [thrown |-> "none", res |-> whenErrors]
         ELSE With(GetProp(GetPath(ctx.record,
                                   ctx.containersChain[Len(ctx.containersChain)]),
                           Join(ToStr(propName))), LAMBDA propValue :
              [thrown |-> "none",
               res |-> IF testValue.t # "undefined"
                       THEN StrictEqualSlots(propValue, testValue)
                       ELSE ~IsEmpty(propPtr,
                                     GetPropertyDesc(ctx.curPointer.container,
                                                     Join(ToStr(propName))),
                                     propValue)]))

\* an addDepsError that does not remember the addresses it reported at
AddDepsErrorEvery(ctx, type, propName, testValue) ==
    AddError(ctx, MsgId(IF testValue.t # "undefined" THEN type \o "Value" ELSE type),
             ObjOf(<< <<"prop", propName>>, <<"value", testValue>> >>))

\* addDepsError(ctx, type, propName, testValue): one error of the kind for an address
AddDepsError(ctx, type, propName, testValue) ==
    IF PtrStr(ctx.curPointer.tokens) \in ctx.depsErrors THEN ctx
    ELSE AddError([ctx EXCEPT !.depsErrors = @ \cup {PtrStr(ctx.curPointer.tokens)}],
                  MsgId(IF testValue.t # "undefined" THEN type \o "Value" ELSE type),
                  ObjOf(<< <<"prop", propName>>, <<"value", testValue>> >>))

\* a 'requiredIf' that does not look at the sibling
V_requiredIfAlways(params, ctx, value) ==
    IF IsEmptyThrows(ctx.curPointer, value) THEN Throw(ctx, value)
    ELSE IF IsEmpty(ctx.curPointer, ctx.curPointer.desc, value)
    THEN IF params.t = "undefined" THEN Throw(ctx, value)
         ELSE RV(AddDepsError(ctx, "missingWhen", GetProp(params, "0"),
                              GetProp(params, "1")), value)
    ELSE RV(ctx, value)

V_requiredIf(params, ctx, value) ==
    IF IsEmptyThrows(ctx.curPointer, value) THEN Throw(ctx, value)
    ELSE IF IsEmpty(ctx.curPointer, ctx.curPointer.desc, value)
    THEN IF params.t = "undefined" THEN Throw(ctx, value)
         ELSE With(HasMatchingSibling(ctx, GetProp(params, "0"), GetProp(params, "1"),
                                      FALSE), LAMBDA sibling :
              IF sibling.thrown # "none"
              THEN RV([ctx EXCEPT !.thrown = sibling.thrown], value)
              ELSE IF sibling.res
              THEN RV(AddDepsError(ctx, "missingWhen", GetProp(params, "0"),
                                   GetProp(params, "1")), value)
              ELSE RV(ctx, value))
    ELSE RV(ctx, value)

\* isEmpty(ctx.currentPointer.parent.createChildPointer(propName),
\*         ctx.currentPropDesc.container.getPropertyDesc(propName), container[propName]):
\* what it returns, or the error thrown on the way
SiblingIsEmpty(ctx, propName) ==
    With(CreateChildPointer(ctx.recordTypeDesc,
             ParentPointer(ctx.recordTypeDesc, ctx.curPointer), Join(ToStr(propName))),
         LAMBDA propPtr :
         IF ~propPtr.valid THEN [thrown |-> "X2SyntaxError", res |-> FALSE]
         ELSE IF ~HasProperty(ctx.curPointer.container, Join(ToStr(propName)))
         THEN [thrown |-> "X2UsageError", res |-> FALSE]
         ELSE [thrown |-> "none",
               res |-> IsEmpty(propPtr,
                          GetPropertyDesc(ctx.curPointer.container, Join(ToStr(propName))),
                          GetProp(GetPath(ctx.record,
                                          ctx.containersChain[Len(ctx.containersChain)]),
                                  Join(ToStr(propName))))])

\* 'needs': past the test for an empty value the function has no return
\* statement, so what it returns is undefined
V_needs(params, ctx, value) ==
    IF IsEmptyThrows(ctx.curPointer, value) THEN Throw(ctx, value)
    ELSE IF IsEmpty(ctx.curPointer, ctx.curPointer.desc, value) THEN RV(ctx, value)
    ELSE IF params.t = "undefined" THEN Throw(ctx, value)
    ELSE IF GetProp(params, "2").t # "undefined"
    THEN IF ~StrictEqualSlots(
                 GetProp(GetPath(ctx.record, ctx.containersChain[Len(ctx.containersChain)]),
                         Join(ToStr(GetProp(params, "1")))),
                 GetProp(params, "2"))
         THEN RV(AddError(ctx, MsgId("invalidNeeded"),
                          ObjOf(<< <<"prop", GetProp(params, "1")>>,
                                   <<"expected", GetProp(params, "2")>> >>)),
                 Undefined)
         ELSE RV(ctx, Undefined)
    ELSE With(SiblingIsEmpty(ctx, GetProp(params, "1")), LAMBDA sibling :
         IF sibling.thrown # "none" THEN RV([ctx EXCEPT !.thrown = sibling.thrown], value)
         ELSE IF sibling.res
         THEN RV(AddError(ctx, MsgId("missingNeeded"),
                          ObjOf(<< <<"prop", GetProp(params, "1")>> >>)),
                 Undefined)
         ELSE RV(ctx, Undefined))

\* 'conflicts': no return statement past the test for an empty value either
V_conflicts(params, ctx, value) ==
    IF IsEmptyThrows(ctx.curPointer, value) THEN Throw(ctx, value)
    ELSE IF IsEmpty(ctx.curPointer, ctx.curPointer.desc, value) THEN RV(ctx, value)
    ELSE IF params.t = "undefined" THEN Throw(ctx, value)
    ELSE IF GetProp(params, "2").t # "undefined"
    THEN IF StrictEqualSlots(
                 GetProp(GetPath(ctx.record, ctx.containersChain[Len(ctx.containersChain)]),
                         Join(ToStr(GetProp(params, "1")))),
                 GetProp(params, "2"))
         THEN RV(AddError(ctx, MsgId("conflictingValue"),
                          ObjOf(<< <<"prop", GetProp(params, "1")>>,
                                   <<"value", GetProp(params, "2")>> >>)),
                 Undefined)
         ELSE RV(ctx, Undefined)
    ELSE With(SiblingIsEmpty(ctx, GetProp(params, "1")), LAMBDA sibling :
         IF sibling.thrown # "none" THEN RV([ctx EXCEPT !.thrown = sibling.thrown], value)
         ELSE IF ~sibling.res
         THEN RV(AddError(ctx, MsgId("conflictingPresent"),
                          ObjOf(<< <<"prop", GetProp(params, "1")>> >>)),
                 Undefined)
         ELSE RV(ctx, Undefined))

\* 'string', 'number', 'boolean', 'object': the value type check
TypeCheck(expected, ctx, value) ==
    IF IsNullish(value) THEN RV(ctx, value)
    ELSE IF TypeOf(value) # expected
    THEN RV(AddError(ctx, MsgId("invalidValueType"),
                ObjOf(<< <<"expected", Str(<<expected>>)>>,
                         <<"actual", Str(<<TypeOf(value)>>)>> >>)), value)
    ELSE RV(ctx, value)

V_string(params, ctx, value) == TypeCheck("string", ctx, value)
V_number(params, ctx, value) == TypeCheck("number", ctx, value)
V_boolean(params, ctx, value) == TypeCheck("boolean", ctx, value)
V_object(params, ctx, value) == TypeCheck("object", ctx, value)

V_array(params, ctx, value) ==
    IF IsNullish(value) THEN RV(ctx, value)
    ELSE IF value.t # "array" THEN RV(AddError(ctx, MsgId("notArray"), Undefined), value)
    ELSE RV(ctx, value)

\* the two loops of 'noDupes' from the pair (i, j) on: the elements are compared
\* with ===, and the first equal pair adds the error and leaves both loops
\* (breaks), or the loops go on (a 'noDupes' without the break)
RECURSIVE ScanDupes(_, _, _, _, _)
ScanDupes(ctx, a, i, j, breaks) ==
    IF i >= Len(a) THEN ctx
    ELSE IF j > Len(a) THEN ScanDupes(ctx, a, i + 1, i + 2, breaks)
    ELSE IF StrictEqualSlots(a[j], a[i])
    THEN IF breaks THEN AddError(ctx, MsgId("duplicates"), Undefined)
         ELSE ScanDupes(AddError(ctx, MsgId("duplicates"), Undefined), a, i, j + 1, breaks)
    ELSE ScanDupes(ctx, a, i, j + 1, breaks)

\* a 'noDupes' that reports every equal pair
V_noDupesEveryPair(params, ctx, value) ==
    IF value.t = "array" THEN RV(ScanDupes(ctx, value.a, 1, 2, FALSE), value)
    ELSE RV(ctx, value)

V_noDupes(params, ctx, value) ==
    IF value.t = "array" THEN RV(ScanDupes(ctx, value.a, 1, 2, TRUE), value)
    ELSE RV(ctx, value)

V_trim(params, ctx, value) ==
    IF TypeOf(value) = "string" THEN RV(ctx, Str(TrimString(value.s))) ELSE RV(ctx, value)

V_lowercase(params, ctx, value) ==
    IF TypeOf(value) = "string" THEN RV(ctx, Str(ToLowerCase(value.s))) ELSE RV(ctx, value)

V_uppercase(params, ctx, value) ==
    IF TypeOf(value) = "string" THEN RV(ctx, Str(ToUpperCase(value.s))) ELSE RV(ctx, value)

V_dropEmptyString(params, ctx, value) ==
    IF TypeOf(value) = "string" /\ Len(value.s) = 0 THEN RV(ctx, Undefined) ELSE RV(ctx, value)

IsAlnum(c) == ToLowerChar(c) \in Range(LowerChars) \cup Range(DigitChars)
IsLocalChar(c) == IsAlnum(c) \/ c \in {".", "_", "%", "+", "'", "-"}
\* [a-z0-9][a-z0-9-]{0,63}
IsDomainLabel(l) ==
    /\ Len(l) >= 1 /\ Len(l) <= 64
    /\ IsAlnum(l[1])
    /\ \A i \in 2..Len(l) : IsAlnum(l[i]) \/ l[i] = "-"

\* the pattern of 'email', case-insensitive
MatchesEmail(s) ==
    \E p \in 2..Len(s) :
        /\ s[p] = "@"
        /\ \A i \in 1..(p - 1) : IsLocalChar(s[i])
        /\ LET labels == SplitOn(SubSeq(s, p + 1, Len(s)), ".")
           IN  Len(labels) >= 2 /\ \A i \in 1..Len(labels) : IsDomainLabel(labels[i])

V_email(params, ctx, value) ==
    IF TypeOf(value) = "string" /\ ~MatchesEmail(value.s)
    THEN RV(AddError(ctx, MsgId("invalidEmail"), Undefined), value)
    ELSE RV(ctx, value)

\* /^([0-1][0-9]|2[0-3]):[0-5][0-9]$/
MatchesTime(s) ==
    /\ Len(s) = 5
    /\ \/ s[1] \in {"0", "1"} /\ IsDigits(<<s[2]>>)
       \/ s[1] = "2" /\ s[2] \in {"0", "1", "2", "3"}
    /\ s[3] = ":"
    /\ s[4] \in {"0", "1", "2", "3", "4", "5"}
    /\ IsDigits(<<s[5]>>)

\* 'time' without parameters
V_time(params, ctx, value) ==
    IF TypeOf(value) = "string" /\ ~MatchesTime(value.s)
    THEN RV(AddError(ctx, MsgId("invalidTime"), Undefined), value)
    ELSE RV(ctx, value)

V_integer(params, ctx, value) ==
    IF TypeOf(value) = "number" /\ ~value.int
    THEN RV(AddError(ctx, MsgId("invalidInteger"), Undefined), value)
    ELSE RV(ctx, value)

\* a 'range' that reports as 'min' and 'max' do: tooSmall below, tooLarge above
V_rangeMinMax(params, ctx, value) ==
    IF IsNullish(value) THEN RV(ctx, value)
    ELSE IF params.t = "undefined" THEN Throw(ctx, value)
    ELSE LET minVal == GetProp(params, "0")
             maxVal == GetProp(params, "1")
             typed == TypeOf(value) = TypeOf(minVal) /\ TypeOf(value) = TypeOf(maxVal)
         IN  IF typed /\ (JsLess(value, minVal) \/ JsLess(maxVal, value))
             THEN RV(AddError(ctx,
                        MsgId(IF JsLess(value, minVal) THEN "tooSmall" ELSE "tooLarge"),
                        ObjOf(<< <<"min", minVal>>, <<"max", maxVal>> >>)), value)
             ELSE RV(ctx, value)

V_range(params, ctx, value) ==
    IF IsNullish(value) THEN RV(ctx, value)
    ELSE IF params.t = "undefined" THEN Throw(ctx, value)
    ELSE LET minVal == GetProp(params, "0")
             maxVal == GetProp(params, "1")
         IN  IF /\ TypeOf(value) = TypeOf(minVal)
                /\ TypeOf(value) = TypeOf(maxVal)
                /\ (JsLess(value, minVal) \/ JsLess(maxVal, value))
             THEN RV(AddError(ctx, MsgId("outOfRange"),
                        ObjOf(<< <<"min", minVal>>, <<"max", maxVal>> >>)), value)
             ELSE RV(ctx, value)

\* a >= b for two numbers or two strings
JsGreaterOrEqual(a, b) ==
    /\ a.t = b.t /\ a.t \in {"number", "string"}
    /\ ~JsLess(a, b)

\* /\bnonZero\b/.test(v), for a text given by its words
HasNonZeroWord(v) == v.t = "string" /\ \E i \in 1..Len(v.s) : v.s[i] = "nonZero"

\* what 'rangeDef' reads before it compares: the keys of the two properties
\* and their values
RangeDefSubject(params, ctx, value) ==
    LET containerDesc == IF ctx.curPointer.tokens = <<>> THEN ctx.recordTypeDesc
                         ELSE ctx.curPointer.desc.nestedProperties
        prefix == IF containerDesc.poly
                  THEN Join(ToStr(GetProp(value, containerDesc.typePropertyName))) \o ":"
                  ELSE ""
        propLo == Join(ToStr(GetProp(params, "0")))
        propHi == Join(ToStr(GetProp(params, "1")))
    IN  [typeKey |-> IF containerDesc.poly
                     THEN <<PtrStr(ctx.curPointer.tokens) \o "/"
                                \o containerDesc.typePropertyName>>
                     ELSE <<>>,
         loTokens |-> Append(ctx.curPointer.tokens, prefix \o propLo),
         hiTokens |-> Append(ctx.curPointer.tokens, prefix \o propHi),
         loVal |-> GetProp(value, propLo),
         hiVal |-> GetProp(value, propHi),
         nonZero |-> HasNonZeroWord(GetProp(params, "2"))]

\* a 'rangeDef' that reports the error for the low property
V_rangeDefAtLow(params, ctx, value) ==
    IF IsNullish(value) \/ TypeOf(value) # "object" THEN RV(ctx, value)
    ELSE IF params.t = "undefined" THEN Throw(ctx, value)
    ELSE With(RangeDefSubject(params, ctx, value), LAMBDA subj :
         IF \E i \in 1..Len(subj.typeKey) : HasErrorsFor(ctx, subj.typeKey[i])
         THEN RV(ctx, value)
         ELSE IF HasErrorsFor(ctx, PtrStr(subj.loTokens))
                 \/ HasErrorsFor(ctx, PtrStr(subj.hiTokens))
         THEN RV(ctx, value)
         ELSE IF IsNullish(subj.loVal) \/ IsNullish(subj.hiVal) THEN RV(ctx, value)
         ELSE IF (subj.nonZero /\ JsGreaterOrEqual(subj.loVal, subj.hiVal))
                 \/ (~subj.nonZero /\ JsLess(subj.hiVal, subj.loVal))
         THEN With(ParsePointer(ctx.recordTypeDesc, subj.loTokens), LAMBDA propLoPtr :
              IF ~propLoPtr.valid THEN RV([ctx EXCEPT !.thrown = "X2SyntaxError"], value)
              ELSE With(GetElementTitle(ctx, propLoPtr), LAMBDA propLoTitle :
                   IF TypeOf(propLoTitle) # "string" THEN Throw(ctx, value)
                   ELSE RV(AddErrorFor(ctx, propLoPtr, MsgId("invalidRangeDef"),
                              ObjOf(<< <<"rangeLoName", propLoTitle>>,
                                       <<"rangeLoNameCaps",
                                         Str(Capitalize(propLoTitle.s))>> >>)),
                           value)))
         ELSE RV(ctx, value))

V_rangeDef(params, ctx, value) ==
    IF IsNullish(value) \/ TypeOf(value) # "object" THEN RV(ctx, value)
    ELSE IF params.t = "undefined" THEN Throw(ctx, value)
    ELSE With(RangeDefSubject(params, ctx, value), LAMBDA subj :
         IF \E i \in 1..Len(subj.typeKey) : HasErrorsFor(ctx, subj.typeKey[i])
         THEN RV(ctx, value)
         ELSE IF HasErrorsFor(ctx, PtrStr(subj.loTokens))
                 \/ HasErrorsFor(ctx, PtrStr(subj.hiTokens))
         THEN RV(ctx, value)
         ELSE IF IsNullish(subj.loVal) \/ IsNullish(subj.hiVal) THEN RV(ctx, value)
         ELSE IF (subj.nonZero /\ JsGreaterOrEqual(subj.loVal, subj.hiVal))
                 \/ (~subj.nonZero /\ JsLess(subj.hiVal, subj.loVal))
         THEN With(ParsePointer(ctx.recordTypeDesc, subj.loTokens), LAMBDA propLoPtr :
              IF ~propLoPtr.valid THEN RV([ctx EXCEPT !.thrown = "X2SyntaxError"], value)
              ELSE With(GetElementTitle(ctx, propLoPtr), LAMBDA propLoTitle :
                   IF TypeOf(propLoTitle) # "string" THEN Throw(ctx, value)
                   ELSE RV(AddErrorFor(ctx, ParsePointer(ctx.recordTypeDesc, subj.hiTokens),
                              MsgId("invalidRangeDef"),
                              ObjOf(<< <<"rangeLoName", propLoTitle>>,
                                       <<"rangeLoNameCaps",
                                         Str(Capitalize(propLoTitle.s))>> >>)),
                           value)))
         ELSE RV(ctx, value))

(***************************************************************************)
(* Validators of the manual's examples (README.md): 'timeRange' of "Object *)
(* Validators and Validation Order", and validator1..validator4 of         *)
(* "Validation Sets", which accept every value.                            *)
(***************************************************************************)
V_timeRange(params, ctx, value) ==
    LET curPtr == PtrStr(ctx.curPointer.tokens)
    IN  IF /\ ~HasErrorsFor(ctx, curPtr \o "/" \o "timeFrom")
           /\ ~HasErrorsFor(ctx, curPtr \o "/" \o "timeTo")
           /\ JsLess(GetProp(value, "timeTo"), GetProp(value, "timeFrom"))
        THEN RV(AddError(ctx, <<"Invalid time range.">>, Undefined), value)
        ELSE RV(ctx, value)

\* the body the three other conditional validators share with 'requiredIf': the
\* value is tested for emptiness (onEmpty: the rule is about an empty value),
\* then the sibling (unless: the rule reports when the sibling does not match,
\* and a sibling with errors counts as matching)
DepsRule(params, ctx, value, onEmpty, unless, type) ==
    IF IsEmptyThrows(ctx.curPointer, value) THEN Throw(ctx, value)
    ELSE IF IsEmpty(ctx.curPointer, ctx.curPointer.desc, value) = onEmpty
    THEN IF params.t = "undefined" THEN Throw(ctx, value)
         ELSE With(HasMatchingSibling(ctx, GetProp(params, "0"), GetProp(params, "1"),
                                      unless), LAMBDA sibling :
              IF sibling.thrown # "none"
              THEN RV([ctx EXCEPT !.thrown = sibling.thrown], value)
              ELSE IF sibling.res # unless
              THEN RV(AddDepsError(ctx, type, GetProp(params, "0"),
                                   GetProp(params, "1")), value)
              ELSE RV(ctx, value))
    ELSE RV(ctx, value)

V_requiredUnless(params, ctx, value) ==
    DepsRule(params, ctx, value, TRUE, TRUE, "missingWhenNot")

V_emptyIf(params, ctx, value) ==
    DepsRule(params, ctx, value, FALSE, FALSE, "notEmptyWhen")

V_emptyUnless(params, ctx, value) ==
    DepsRule(params, ctx, value, FALSE, TRUE, "notEmptyWhenNot")

V_accept(params, ctx, value) == RV(ctx, value)

\* standard.VALIDATOR_DEFS, with the validatorDefs of the library definition
VALIDATOR_DEFS ==
    {"required", "empty", "string", "number", "boolean", "object", "array", "noDupes",
     "trim", "lowercase", "uppercase", "dropEmptyString", "email", "time", "integer",
     "range", "rangeDef", "requiredIf", "requiredUnless", "emptyIf", "emptyUnless",
     "needs", "conflicts",
     "timeRange", "validator1", "validator2", "validator3", "validator4"}

\* a validator function curried with its parameters
Curried(id, params) == [t |-> "function", id |-> id, params |-> params]

\* validatorFuncs[id](params, ctx, value)
CallValidator(id, params, ctx, value) ==
    CASE id = "required" -> V_required(params, ctx, value)
      [] id = "empty" -> V_empty(params, ctx, value)
      [] id = "string" -> V_string(params, ctx, value)
      [] id = "number" -> V_number(params, ctx, value)
      [] id = "boolean" -> V_boolean(params, ctx, value)
      [] id = "object" -> V_object(params, ctx, value)
      [] id = "array" -> V_array(params, ctx, value)
      [] id = "noDupes" -> V_noDupes(params, ctx, value)
      [] id = "trim" -> V_trim(params, ctx, value)
      [] id = "lowercase" -> V_lowercase(params, ctx, value)
      [] id = "uppercase" -> V_uppercase(params, ctx, value)
      [] id = "dropEmptyString" -> V_dropEmptyString(params, ctx, value)
      [] id = "email" -> V_email(params, ctx, value)
      [] id = "time" -> V_time(params, ctx, value)
      [] id = "integer" -> V_integer(params, ctx, value)
      [] id = "range" -> V_range(params, ctx, value)
      [] id = "rangeDef" -> V_rangeDef(params, ctx, value)
      [] id = "requiredIf" -> V_requiredIf(params, ctx, value)
      [] id = "requiredUnless" -> V_requiredUnless(params, ctx, value)
      [] id = "emptyIf" -> V_emptyIf(params, ctx, value)
      [] id = "emptyUnless" -> V_emptyUnless(params, ctx, value)
      [] id = "needs" -> V_needs(params, ctx, value)
      [] id = "conflicts" -> V_conflicts(params, ctx, value)
      [] id = "timeRange" -> V_timeRange(params, ctx, value)
      [] OTHER -> V_accept(params, ctx, value)

(***************************************************************************)
(* index.js: createValidators.  A validators object (validation sets to    *)
(* lists) keeps its keys in insertion order: a sequence of [key, val].     *)
(***************************************************************************)
ElementPrefix == <<"e", "l", "e", "m", "e", "n", "t", ":">>
StarSet == <<"*">>

SetsObj(entries) == [t |-> "sets", e |-> entries]
SetEntry(key, val) == [key |-> key, val |-> val]

HasSet(sets, setId) == \E i \in 1..Len(sets) : Join(sets[i].key) = Join(setId)
GetSet(sets, setId) == sets[CHOOSE i \in 1..Len(sets) : Join(sets[i].key) = Join(setId)].val

\* sets[setId] = val
PutSet(sets, setId, val) ==
    IF HasSet(sets, setId)
    THEN [i \in 1..Len(sets) |->
            IF Join(sets[i].key) = Join(setId) THEN SetEntry(sets[i].key, val) ELSE sets[i]]
    ELSE Append(sets, SetEntry(setId, val))

\* sets[setId], created empty if missing, with the specifications pushed onto it
PushSpecs(sets, setId, specs) ==
    PutSet(sets, setId, (IF HasSet(sets, setId) THEN GetSet(sets, setId) ELSE <<>>) \o specs)

RECURSIVE PushToSets(_, _, _, _)
\* for (let setId of setsSpec.split(',')) ...: the list goes to every set named
PushToSets(sets, prefix, setIds, specs) ==
    IF setIds = <<>> THEN sets
    ELSE PushToSets(PushSpecs(sets, prefix \o Head(setIds), specs), prefix, Tail(setIds), specs)

RECURSIVE MergeSetsObject(_, _, _)
\* for (let setsSpec in subjDef.validators) ...
MergeSetsObject(sets, prefix, entries) ==
    IF entries = <<>> THEN sets
    ELSE MergeSetsObject(
            PushToSets(sets, prefix, SplitOn(Head(entries).key, ","), Head(entries).val.a),
            prefix, Tail(entries))

\* the first two steps of createValidators, for 'validators' (prefix '') and for
\* 'elementValidators' (prefix 'element:'); fault when the attribute is malformed
MergeSpecification(merged, prefix, spec) ==
    IF merged.fault \/ ~Truthy(spec) THEN merged
    ELSE IF spec.t = "array"
    THEN [merged EXCEPT !.sets = PushSpecs(@, prefix \o StarSet, spec.a)]
    ELSE IF spec.t = "sets"
    THEN IF \E i \in 1..Len(spec.e) : spec.e[i].val.t # "array"
         THEN [merged EXCEPT !.fault = TRUE]
         ELSE [merged EXCEPT !.sets = MergeSetsObject(@, prefix, spec.e)]
    ELSE [merged EXCEPT !.fault = TRUE]

\* the last place in a chain of a validator with this id (0: none)
LastWithId(validators, validatorId) ==
    IF \E i \in 1..Len(validators) : validators[i].id = validatorId
    THEN CHOOSE i \in 1..Len(validators) :
            /\ validators[i].id = validatorId
            /\ \A j \in (i + 1)..Len(validators) : validators[j].id # validatorId
    ELSE 0

\* a turn of the loop in which '-id' takes out the last validator with that id
ApplyValidatorSpecLastOnly(built, validatorSpec) ==
    LET isString == validatorSpec.t = "string"
        isMarker == isString /\ StartsWith(validatorSpec.s, <<"-">>)
        isArray == validatorSpec.t = "array" /\ Len(validatorSpec.a) > 0
        validatorId ==
            IF isMarker THEN Join(SubstringFrom(validatorSpec.s, 1))
            ELSE IF isString THEN Join(validatorSpec.s)
            ELSE Join(ToStr(validatorSpec.a[1]))
        params ==
            IF isArray /\ Len(validatorSpec.a) > 1
            THEN Arr(SubSeq(validatorSpec.a, 2, Len(validatorSpec.a)))
            ELSE Undefined
        last == LastWithId(built.validators, validatorId)
    IN  IF built.fault THEN built
        ELSE IF isMarker
        THEN [built EXCEPT !.validators =
                [i \in 1..(Len(@) - (IF last = 0 THEN 0 ELSE 1)) |->
                    IF last = 0 \/ i < last THEN @[i] ELSE @[i + 1]]]
        ELSE IF ~isString /\ ~isArray THEN [built EXCEPT !.fault = TRUE]
        ELSE IF validatorId \notin VALIDATOR_DEFS THEN [built EXCEPT !.fault = TRUE]
        ELSE [built EXCEPT !.validators =
                Append(@, [id |-> validatorId, func |-> Curried(validatorId, params)])]

\* one turn of the loop over the specifications of a set: the chain built so far
\* is a list of [id, func]
ApplyValidatorSpec(built, validatorSpec) ==
    LET isString == validatorSpec.t = "string"
        isMarker == isString /\ StartsWith(validatorSpec.s, <<"-">>)
        isArray == validatorSpec.t = "array" /\ Len(validatorSpec.a) > 0
        validatorId ==
            IF isMarker THEN Join(SubstringFrom(validatorSpec.s, 1))
            ELSE IF isString THEN Join(validatorSpec.s)
            ELSE Join(ToStr(validatorSpec.a[1]))
        params ==
            IF isArray /\ Len(validatorSpec.a) > 1
            THEN Arr(SubSeq(validatorSpec.a, 2, Len(validatorSpec.a)))
            ELSE Undefined
    IN  IF built.fault THEN built
        ELSE IF isMarker
        THEN [built EXCEPT !.validators = SelectSeq(@, LAMBDA v : v.id # validatorId)]
        ELSE IF ~isString /\ ~isArray THEN [built EXCEPT !.fault = TRUE]
        ELSE IF validatorId \notin VALIDATOR_DEFS THEN [built EXCEPT !.fault = TRUE]
        ELSE [built EXCEPT !.validators =
                Append(@, [id |-> validatorId, func |-> Curried(validatorId, params)])]

RECURSIVE BuildChain(_, _)
\* the loop over the specifications of one set
BuildChain(built, specs) ==
    IF specs = <<>> THEN built
    ELSE BuildChain(ApplyValidatorSpec(built, Head(specs)), Tail(specs))

NothingBuilt == [validators |-> <<>>, fault |-> FALSE]

\* the last step of createValidators for one set: its list is replaced by the
\* functions built only when at least one was built
CompileSet(entry) ==
    LET built == BuildChain(NothingBuilt, entry.val)
    IN  IF Len(built.validators) > 0
        THEN SetEntry(entry.key, [i \in 1..Len(built.validators) |-> built.validators[i].func])
        ELSE entry

\* createValidators(validatorFuncs, defaultValidators, subjDef, subjDescription):
\* the sets, or null; fault for an X2UsageError
CreateValidators(defaultValidators, subjDef) ==
    LET merged == MergeSpecification(
                    MergeSpecification([sets |-> defaultValidators, fault |-> FALSE],
                                       <<>>, subjDef.validators),
                    ElementPrefix, subjDef.elementValidators)
        sets == merged.sets
        builds == [i \in 1..Len(sets) |-> BuildChain(NothingBuilt, sets[i].val)]
        fault == merged.fault \/ \E i \in 1..Len(sets) : builds[i].fault
    IN  [fault |-> fault,
         null |-> fault \/ \A i \in 1..Len(sets) : Len(builds[i].validators) = 0,
         sets |-> IF fault THEN <<>> ELSE [i \in 1..Len(sets) |-> CompileSet(sets[i])]]

(***************************************************************************)
(* Definitions of record types and properties (x2node-records): what the   *)
(* descriptor tells of the property, and the attributes of its definition  *)
(* that this module reads.                                                 *)
(***************************************************************************)
PropDef(chars, valueType) ==
    [name |-> Join(chars), chars |-> chars,
     card |-> "scalar", scalarValueType |-> valueType,
     optional |-> FALSE, view |-> FALSE, subtype |-> FALSE, polyType |-> FALSE,
     allowDuplicates |-> FALSE,
     title |-> Undefined, validationErrorMessages |-> Undefined,
     validators |-> Undefined, elementValidators |-> Undefined,
     poly |-> FALSE, typePropertyName |-> "", props |-> <<>>]

RecordTypeDef(chars, props) ==
    [name |-> Join(chars), chars |-> chars,
     title |-> Undefined, validationErrorMessages |-> Undefined,
     validators |-> Undefined, elementValidators |-> Undefined,
     poly |-> FALSE, typePropertyName |-> "", props |-> props]

RECURSIVE OverlayLangs(_, _, _)
\* Object.create(existingMessageDef) with the languages of messageDef set on it:
\* its own languages come first, those it inherits after
OverlayLangs(existing, messageDef, i) ==
    IF i > Len(Keys(existing)) THEN messageDef
    ELSE LET lang == Keys(existing)[i]
             rest == OverlayLangs(existing, messageDef, i + 1)
         IN  IF HasKey(messageDef, lang) THEN rest
             ELSE [rest EXCEPT !.k = <<lang>> \o @, !.o = (lang :> existing.o[lang]) @@ @]

RECURSIVE OverlayMessages(_, _, _)
OverlayMessages(base, messages, i) ==
    IF i > Len(Keys(messages)) THEN base
    ELSE LET messageId == Keys(messages)[i]
             messageDef == messages.o[messageId]
             existing == GetProp(base, messageId)
             newMessageDef ==
                IF Truthy(existing) /\ existing.t = "object" /\ messageDef.t = "object"
                THEN LET inherited == OverlayLangs(existing, EmptyObj, 1)
                     IN  Obj(messageDef.k \o SelectSeq(inherited.k, LAMBDA l : ~HasKey(messageDef, l)),
                             [l \in Range(messageDef.k) \cup Range(inherited.k) |->
                                IF HasKey(messageDef, l) THEN messageDef.o[l] ELSE inherited.o[l]])
                ELSE messageDef
         IN  OverlayMessages(SetProp(base, messageId, newMessageDef), messages, i + 1)

\* createValidationErrorMessages(base, subjDef)
CreateValidationErrorMessages(base, subjDef) ==
    IF ~Truthy(subjDef.validationErrorMessages) THEN base
    ELSE OverlayMessages(base, subjDef.validationErrorMessages, 1)

\* the default validators of a property, by its type (extendPropertyDescriptor)
DefaultValidators(propDef) ==
    LET typeValidators ==
            CASE propDef.scalarValueType = "string" -> <<Str(<<"string">>), Str(<<"trim">>)>>
              [] propDef.scalarValueType = "number" -> <<Str(<<"number">>)>>
              [] propDef.scalarValueType = "boolean" -> <<Str(<<"boolean">>)>>
              [] propDef.scalarValueType = "object" -> <<Str(<<"object">>)>>
              [] OTHER -> <<>>
        required == IF ~propDef.optional THEN <<Str(<<"required">>)>> ELSE <<>>
        objectElement ==
            IF propDef.scalarValueType = "object" THEN <<Str(<<"required">>)>> ELSE <<>>
    IN  CASE propDef.card = "array" ->
                <<SetEntry(StarSet,
                    required \o <<Str(<<"array">>)>>
                        \o (IF propDef.scalarValueType # "object" /\ ~propDef.allowDuplicates
                            THEN <<Str(<<"noDupes">>)>> ELSE <<>>)),
                  SetEntry(ElementPrefix \o StarSet, objectElement \o typeValidators)>>
          [] propDef.card = "map" ->
                <<SetEntry(StarSet, required \o <<Str(<<"object">>)>>),
                  SetEntry(ElementPrefix \o StarSet, objectElement \o typeValidators)>>
          [] OTHER ->
                <<SetEntry(StarSet, required \o typeValidators),
                  SetEntry(ElementPrefix \o StarSet, <<>>)>>

NoValidators == [fault |-> FALSE, null |-> TRUE, sets |-> <<>>]

RECURSIVE ExtendProperties(_, _)
\* extendPropertyDescriptor for each property of a container, in depth
ExtendProperties(props, messagesBase) ==
    [i \in 1..Len(props) |->
        LET propDef == props[i]
            messages == CreateValidationErrorMessages(messagesBase, propDef)
        IN  [name |-> propDef.name,
             card |-> propDef.card,
             scalarValueType |-> propDef.scalarValueType,
             optional |-> propDef.optional,
             view |-> propDef.view,
             subtype |-> propDef.subtype,
             polyType |-> propDef.polyType,
             title |-> IF Truthy(propDef.title) THEN propDef.title ELSE Str(propDef.chars),
             validationErrorMessages |-> messages,
             validators |->
                IF ~propDef.view /\ ~propDef.polyType
                THEN CreateValidators(DefaultValidators(propDef), propDef)
                ELSE NoValidators,
             nestedProperties |->
                [poly |-> propDef.poly,
                 typePropertyName |-> propDef.typePropertyName,
                 props |-> ExtendProperties(propDef.props, messages)]]]

\* extendPropertiesContainer for a record type
ExtendRecordType(recordTypeDef) ==
    LET messages == CreateValidationErrorMessages(VALIDATION_ERROR_MESSAGES, recordTypeDef)
    IN  [name |-> recordTypeDef.name,
         title |-> IF Truthy(recordTypeDef.title) THEN recordTypeDef.title
                   ELSE Str(recordTypeDef.chars),
         validationErrorMessages |-> messages,
         validators |-> CreateValidators(<<>>, recordTypeDef),
         poly |-> recordTypeDef.poly,
         typePropertyName |-> recordTypeDef.typePropertyName,
         props |-> ExtendProperties(recordTypeDef.props, messages)]

(***************************************************************************)
(* lib/record-normalizer.js.  An object or array of the record is held by  *)
(* reference: the path that leads to it from the record.  The history of   *)
(* the call (ctx.log) notes every validator call, every engine error and   *)
(* every write into the record, in the order they happen.                  *)
(***************************************************************************)
\* at: the tokens of the pointer; slot: the reference to the value; seen, errs:
\* the errors object before and after
Event(ev, kind, at, slot, id, arg, ret, seen, errs) ==
    [ev |-> ev, kind |-> kind, at |-> at, slot |-> slot, id |-> id, arg |-> arg,
     ret |-> ret, seen |-> seen, errs |-> errs]

\* where the context stands: the current pointer, the depth of the pointer
\* stack and the containers chain
Stand(ctx) ==
    [pointer |-> ctx.curPointer.tokens, stack |-> Len(ctx.pointerStack),
     chain |-> ctx.containersChain]

\* the event goes into the history, with where the context stands
Note(ctx, event) ==
    IF ctx.thrown # "none" THEN ctx
    ELSE [ctx EXCEPT !.log = Append(@, [stand |-> Stand(ctx)] @@ event)]

\* a getValidators that looks an element set up under its full name
GetValidatorsUnstripped(subjDesc, element, validationSets) ==
    LET validators == subjDesc.validators
        selected(set) ==
            IF element /\ ~StartsWith(set, ElementPrefix) THEN FALSE
            ELSE Join(set) \in validationSets
        allValidators[i \in 0..Len(validators.sets)] ==
            IF i = 0 THEN <<>>
            ELSE IF selected(validators.sets[i].key)
            THEN allValidators[i - 1] \o validators.sets[i].val
            ELSE allValidators[i - 1]
        all == allValidators[Len(validators.sets)]
    IN  IF validators.null THEN [null |-> TRUE, list |-> <<>>]
        ELSE [null |-> Len(all) = 0, list |-> all]

\* getValidators(subjDesc, element, validationSets)
GetValidators(subjDesc, element, validationSets) ==
    LET validators == subjDesc.validators
        selected(set) ==
            IF element /\ ~StartsWith(set, ElementPrefix) THEN FALSE
            ELSE Join(IF element THEN SubstringFrom(set, Len(ElementPrefix)) ELSE set)
                    \in validationSets
        allValidators[i \in 0..Len(validators.sets)] ==
            IF i = 0 THEN <<>>
            ELSE IF selected(validators.sets[i].key)
            THEN allValidators[i - 1] \o validators.sets[i].val
            ELSE allValidators[i - 1]
        all == allValidators[Len(validators.sets)]
    IN  IF validators.null THEN [null |-> TRUE, list |-> <<>>]
        ELSE [null |-> Len(all) = 0, list |-> all]

RECURSIVE RunThreaded(_, _, _, _, _, _)
\* a loop that forgets what the validators return: validator(ctx, value);
RunEachOnOriginal(ctx, validators, i, value, kind, slot) ==
    IF i > Len(validators) \/ ctx.thrown # "none" THEN RV(ctx, value)
    ELSE IF validators[i].t # "function" THEN Throw(ctx, value)
    ELSE With(CallValidator(validators[i].id, validators[i].params, ctx, value),
              LAMBDA r :
         RunThreaded(Note(r.ctx, Event("rule", kind, ctx.curPointer.tokens, slot,
                                       validators[i].id, value, r.value, ctx.result,
                                       r.ctx.result)),
                     validators, i + 1, value, kind, slot))

\* for (let validator of validators) value = validator(ctx, value);
RunThreaded(ctx, validators, i, value, kind, slot) ==
    IF i > Len(validators) \/ ctx.thrown # "none" THEN RV(ctx, value)
    ELSE IF validators[i].t # "function" THEN Throw(ctx, value)
    ELSE With(CallValidator(validators[i].id, validators[i].params, ctx, value),
              LAMBDA r :
         RunThreaded(Note(r.ctx, Event("rule", kind, ctx.curPointer.tokens, slot,
                                       validators[i].id, value, r.value, ctx.result,
                                       r.ctx.result)),
                     validators, i + 1, r.value, kind, slot))

RECURSIVE RunDiscarding(_, _, _, _, _)
\* for (let validator of validators) validator(ctx, containerObj);
RunDiscarding(ctx, validators, i, objPath, kind) ==
    IF i > Len(validators) \/ ctx.thrown # "none" THEN ctx
    ELSE IF validators[i].t # "function" THEN [ctx EXCEPT !.thrown = "TypeError"]
    ELSE With(GetPath(ctx.record, objPath), LAMBDA value :
         With(CallValidator(validators[i].id, validators[i].params, ctx, value),
              LAMBDA r :
         RunDiscarding(Note(r.ctx, Event("rule", kind, ctx.curPointer.tokens, objPath,
                                         validators[i].id, value, r.value, ctx.result,
                                         r.ctx.result)),
                       validators, i + 1, objPath, kind)))

\* if (value !== originalValue) container[key] = value;
WriteBack(ctx, valuePath, originalValue, value) ==
    IF ctx.thrown = "none" /\ StrictNotEqual(value, originalValue)
    THEN Note([ctx EXCEPT !.record = SetPath(@, valuePath, value)],
              Event("write", "write", ctx.curPointer.tokens, valuePath, "",
                    originalValue, value, ctx.result, ctx.result))
    ELSE ctx

IsObjectValue(value) == TypeOf(value) = "object" /\ value.t # "null"

RECURSIVE NormalizeChildren(_, _, _, _)
RECURSIVE NormalizeProps(_, _, _, _, _, _)
RECURSIVE NormalizeProperty(_, _, _, _)
RECURSIVE NormalizeElements(_, _, _, _, _, _)
RECURSIVE NormalizeNested(_, _, _, _, _)

\* the loop over the elements of an array or map property
NormalizeElements(ctx, propDesc, valuePath, keys, elementValidators, i) ==
    IF i > Len(keys) \/ ctx.thrown # "none" THEN ctx
    ELSE With(Append(valuePath, keys[i]), LAMBDA elementPath :
         With(GetPath(ctx.record, elementPath), LAMBDA originalElementValue :
         With(Descend(ctx, keys[i], valuePath), LAMBDA down :
         With(IF propDesc.scalarValueType = "object" /\ IsObjectValue(originalElementValue)
              THEN NormalizeChildren(down, propDesc.nestedProperties, "", elementPath)
              ELSE down,
              LAMBDA inner :
         With(RunThreaded(inner, elementValidators.list, 1,
                          IF IsComposite(originalElementValue)
                          THEN GetPath(inner.record, elementPath)
                          ELSE originalElementValue,
                          "element", elementPath),
              LAMBDA r :
         With(IF elementValidators.null THEN r.ctx
              ELSE WriteBack(r.ctx, elementPath, originalElementValue, r.value),
              LAMBDA written :
         IF written.thrown # "none" THEN written
         ELSE NormalizeElements(Ascend(written), propDesc, valuePath, keys,
                                elementValidators, i + 1)))))))

\* the elements of an array or map property, the properties of a nested object
NormalizeNested(down, propDesc, valuePath, originalValue, elementValidators) ==
    LET objects == propDesc.scalarValueType = "object"
        elements ==
            IF IsArrayProp(propDesc)
            THEN originalValue.t = "array" /\ Len(originalValue.a) > 0
                    /\ (objects \/ ~elementValidators.null)
            ELSE IF IsMapProp(propDesc)
            THEN IsObjectValue(originalValue) /\ (objects \/ ~elementValidators.null)
            ELSE FALSE
        nested == ~IsArrayProp(propDesc) /\ ~IsMapProp(propDesc)
                    /\ objects /\ IsObjectValue(originalValue)
    IN  IF elements
        THEN NormalizeElements(down, propDesc, valuePath, Keys(originalValue),
                               elementValidators, 1)
        ELSE IF nested
        THEN NormalizeChildren(down, propDesc.nestedProperties, "", valuePath)
        ELSE down

\* a turn that runs the validators of the property before it goes into its
\* elements or nested properties
NormalizePropertyChainFirst(ctx, propDesc, subtypeName, objPath) ==
    With(propDesc.name, LAMBDA propName :
    With(GetProp(GetPath(ctx.record, objPath), propName), LAMBDA originalValue :
    With(Append(objPath, propName), LAMBDA valuePath :
    With(Descend(ctx, IF subtypeName # "" THEN subtypeName \o ":" \o propName
                      ELSE propName, objPath),
         LAMBDA down :
    With(RunThreaded(down, GetValidators(propDesc, FALSE, ctx.validationSets).list, 1,
                     originalValue, "field", valuePath),
         LAMBDA r :
    With(NormalizeNested(r.ctx, propDesc, valuePath, originalValue,
                         GetValidators(propDesc, TRUE, ctx.validationSets)),
         LAMBDA inner :
    With(WriteBack(inner, valuePath, originalValue, r.value), LAMBDA written :
    IF written.thrown # "none" THEN written ELSE Ascend(written))))))))

\* one turn of the loop over the properties, for a property that is neither a
\* view nor a subtype
NormalizeProperty(ctx, propDesc, subtypeName, objPath) ==
    With(propDesc.name, LAMBDA propName :
    With(GetProp(GetPath(ctx.record, objPath), propName), LAMBDA originalValue :
    With(Append(objPath, propName), LAMBDA valuePath :
    With(NormalizeNested(Descend(ctx, IF subtypeName # "" THEN subtypeName \o ":" \o propName
                                      ELSE propName, objPath),
                         propDesc, valuePath, originalValue,
                         GetValidators(propDesc, TRUE, ctx.validationSets)),
         LAMBDA inner :
    With(RunThreaded(inner, GetValidators(propDesc, FALSE, ctx.validationSets).list, 1,
                     IF IsComposite(originalValue) THEN GetPath(inner.record, valuePath)
                     ELSE originalValue,
                     "field", valuePath),
         LAMBDA r :
    With(WriteBack(r.ctx, valuePath, originalValue, r.value), LAMBDA written :
    IF written.thrown # "none" THEN written ELSE Ascend(written)))))))

\* a loop over the properties that goes into every subtype of a polymorphic
\* object, whatever its type property says
NormalizePropsEverySubtype(ctx, container, subtypeName, objPath, subtype, i) ==
    IF i > Len(container.props) \/ ctx.thrown # "none" THEN ctx
    ELSE With(GetPropertyDesc(container, AllPropertyNames(container)[i]), LAMBDA propDesc :
         NormalizeProps(
            IF propDesc.view THEN ctx
            ELSE IF propDesc.subtype
            THEN IF TRUE
                 THEN RunDiscarding(
                        NormalizeChildren(ctx, propDesc.nestedProperties, subtype, objPath),
                        GetValidators(propDesc, FALSE, ctx.validationSets).list,
                        1, objPath, "subtype")
                 ELSE ctx
            ELSE NormalizeProperty(ctx, propDesc, subtypeName, objPath),
            container, subtypeName, objPath, subtype, i + 1))

\* a loop over the properties that does not skip the views
NormalizePropsWithViews(ctx, container, subtypeName, objPath, subtype, i) ==
    IF i > Len(container.props) \/ ctx.thrown # "none" THEN ctx
    ELSE With(GetPropertyDesc(container, AllPropertyNames(container)[i]), LAMBDA propDesc :
         NormalizeProps(
            IF propDesc.subtype
            THEN IF propDesc.name = subtype
                 THEN RunDiscarding(
                        NormalizeChildren(ctx, propDesc.nestedProperties, subtype, objPath),
                        GetValidators(propDesc, FALSE, ctx.validationSets).list,
                        1, objPath, "subtype")
                 ELSE ctx
            ELSE NormalizeProperty(ctx, propDesc, subtypeName, objPath),
            container, subtypeName, objPath, subtype, i + 1))

\* for (let propName of container.allPropertyNames) ...
NormalizeProps(ctx, container, subtypeName, objPath, subtype, i) ==
    IF i > Len(container.props) \/ ctx.thrown # "none" THEN ctx
    ELSE With(GetPropertyDesc(container, AllPropertyNames(container)[i]), LAMBDA propDesc :
         NormalizeProps(
            IF propDesc.view THEN ctx
            ELSE IF propDesc.subtype
            THEN IF propDesc.name = subtype
                 THEN RunDiscarding(
                        NormalizeChildren(ctx, propDesc.nestedProperties, subtype, objPath),
                        GetValidators(propDesc, FALSE, ctx.validationSets).list,
                        1, objPath, "subtype")
                 ELSE ctx
            ELSE NormalizeProperty(ctx, propDesc, subtypeName, objPath),
            container, subtypeName, objPath, subtype, i + 1))

\* normalizeChildren(ctx, container, subtypeName, containerObj, validationSets)
NormalizeChildren(ctx, container, subtypeName, objPath) ==
    With(GetProp(GetPath(ctx.record, objPath), container.typePropertyName), LAMBDA subtype :
    With(ParsePointer(ctx.recordTypeDesc,
                      Append(ctx.curPointer.tokens, container.typePropertyName)),
         LAMBDA typePtr :
    IF ctx.thrown # "none" THEN ctx
    ELSE IF container.poly
            /\ (TypeOf(subtype) # "string" \/ ~HasProperty(container, Join(subtype.s)))
    THEN With(AddErrorFor(ctx, typePtr, MsgId("invalidType"), Undefined), LAMBDA reported :
              Note(reported, Event("engine", "engine", typePtr.tokens, objPath,
                                   "invalidType", subtype, subtype, ctx.result,
                                   reported.result)))
    ELSE NormalizeProps(ctx, container, subtypeName, objPath,
                        IF container.poly THEN Join(subtype.s) ELSE "", 1)))

NoStand == [pointer |-> <<>>, stack |-> 0, chain |-> <<>>]

\* what a call leaves behind: how it ended, what it returned, the record as it
\* left it, the errors object and the history
Outcome(outcome, result, rec, errors, log, stand) ==
    [outcome |-> outcome, result |-> result, record |-> rec, errors |-> errors, log |-> log,
     stand |-> stand]

UsageFault(rec) == Outcome("X2UsageError", Undefined, rec, NoErrors, <<>>, NoStand)

\* recordTypes.getRecordTypeDesc(recordTypeName)
HasRecordType(recordTypes, recordTypeName) ==
    \E i \in 1..Len(recordTypes.types) : recordTypes.types[i].name = recordTypeName
GetRecordTypeDesc(recordTypes, recordTypeName) ==
    recordTypes.types[CHOOSE i \in 1..Len(recordTypes.types) :
                        recordTypes.types[i].name = recordTypeName]

\* new Set((validationSets ? validationSets.trim() + ',*' : '*').split(/\s*,\s*/))
ValidationSets(validationSets) ==
    LET list == IF Truthy(validationSets) THEN TrimString(validationSets.s) \o <<",", "*">>
                ELSE <<"*">>
    IN  {Join(set) : set \in Range(SplitCommaList(list))}

\* a normalize that runs the validators of the record before those of its
\* properties
NormalizeRecordChainFirst(recordTypes, recordTypeName, rec, lang, validationSets) ==
    LET recordTypeDesc == GetRecordTypeDesc(recordTypes, recordTypeName)
        sets == ValidationSets(validationSets)
        ctx == NewContext(recordTypeDesc,
                          MessageResolver(IF Truthy(lang) THEN lang.s ELSE <<"*">>),
                          sets, rec)
        recordValidators == GetValidators(recordTypeDesc, FALSE, sets)
        first == RunDiscarding(ctx, recordValidators.list, 1, <<>>, "record")
    IN  IF rec.t = "null" \/ TypeOf(rec) # "object" THEN UsageFault(rec)
        ELSE IF ~HasRecordType(recordTypes, recordTypeName) THEN UsageFault(rec)
        ELSE With(NormalizeChildren(first, recordTypeDesc, "", <<>>), LAMBDA done :
             IF done.thrown # "none"
             THEN Outcome(done.thrown, Undefined, done.record, done.result, done.log,
                          Stand(done))
             ELSE Outcome("returned", GetResult(done), done.record, done.result, done.log,
                          Stand(done)))

\* normalize(recordTypes, recordTypeName, record, lang, validationSets)
Normalize(recordTypes, recordTypeName, rec, lang, validationSets) ==
    LET recordTypeDesc == GetRecordTypeDesc(recordTypes, recordTypeName)
        sets == ValidationSets(validationSets)
        ctx == NewContext(recordTypeDesc,
                          MessageResolver(IF Truthy(lang) THEN lang.s ELSE <<"*">>),
                          sets, rec)
        children == NormalizeChildren(ctx, recordTypeDesc, "", <<>>)
        recordValidators == GetValidators(recordTypeDesc, FALSE, sets)
    IN  IF rec.t = "null" \/ TypeOf(rec) # "object" THEN UsageFault(rec)
        ELSE IF ~HasRecordType(recordTypes, recordTypeName) THEN UsageFault(rec)
        ELSE With(RunDiscarding(children, recordValidators.list, 1, <<>>, "record"),
                  LAMBDA done :
             IF done.thrown # "none"
             THEN Outcome(done.thrown, Undefined, done.record, done.result, done.log,
                          Stand(done))
             ELSE Outcome("returned", GetResult(done), done.record, done.result, done.log,
                          Stand(done)))

(***************************************************************************)
(* index.js: the public functions.                                         *)
(***************************************************************************)
\* isSupported(recordTypes)
IsSupported(recordTypes) == IF recordTypes.tagged THEN TRUE ELSE FALSE

\* a normalizeRecord that does not look for the tag of the extension
NormalizeRecordUnchecked(recordTypes, recordTypeName, rec, lang, validationSets) ==
    Normalize(recordTypes, recordTypeName, rec, lang, validationSets)

\* normalizeRecord(recordTypes, recordTypeName, record, lang, validationSets)
NormalizeRecord(recordTypes, recordTypeName, rec, lang, validationSets) ==
    IF ~recordTypes.tagged THEN UsageFault(rec)
    ELSE Normalize(recordTypes, recordTypeName, rec, lang, validationSets)

(***************************************************************************)
(* The record types library of the model: the record types of the manual   *)
(* (README.md: Usage, Validation Sets, Object Validators and Validation    *)
(* Order) and two record types with a collection and a polymorphic nested  *)
(* object.                                                                 *)
(***************************************************************************)
Specs(ids) == Arr([i \in 1..Len(ids) |-> Str(<<ids[i]>>)])

ContactDef ==
    RecordTypeDef(<<"C", "o", "n", "t", "a", "c", "t">>, <<
        PropDef(<<"n", "a", "m", "e">>, "string"),
        [PropDef(<<"e", "m", "a", "i", "l">>, "string") EXCEPT
            !.optional = TRUE,
            !.validators = Specs(<<"email", "lowercase">>)] >>)

MyRecordDef ==
    [RecordTypeDef(<<"M", "y", "R", "e", "c", "o", "r", "d">>, <<
        [PropDef(<<"m", "y", "P", "r", "o", "p", "e", "r", "t", "y">>, "string") EXCEPT
            !.validators = SetsObj(<<
                SetEntry(<<"set1">>, Specs(<<"validator1">>)),
                SetEntry(<<"set2">>, Specs(<<"validator2">>)),
                SetEntry(<<"set1", ",", "set2">>, Specs(<<"validator3">>)),
                SetEntry(<<"*">>, Specs(<<"validator4">>)) >>)] >>)
     EXCEPT !.validators = SetsObj(<<SetEntry(<<"set2">>, Specs(<<"validator2">>))>>)]

ExamDef ==
    RecordTypeDef(<<"E", "x", "a", "m">>, <<
        [PropDef(<<"s", "c", "o", "r", "e", "s">>, "number") EXCEPT
            !.card = "array",
            !.elementValidators = Specs(<<"integer">>)],
        [PropDef(<<"b", "e", "s", "t">>, "number") EXCEPT !.view = TRUE],
        [PropDef(<<"s", "u", "m", "m", "a", "r", "y">>, "object") EXCEPT
            !.view = TRUE,
            !.props = <<PropDef(<<"l", "a", "b", "e", "l">>, "string")>>] >>)

OwnerDef ==
    [RecordTypeDef(<<"O", "w", "n", "e", "r">>, <<
        [PropDef(<<"p", "e", "t">>, "object") EXCEPT
            !.poly = TRUE,
            !.typePropertyName = "type",
            !.props = <<
                [PropDef(<<"t", "y", "p", "e">>, "string") EXCEPT !.polyType = TRUE],
                [PropDef(<<"D", "o", "g">>, "object") EXCEPT
                    !.subtype = TRUE, !.optional = TRUE,
                    !.validators = Specs(<<"validator2">>),
                    !.props = <<PropDef(<<"n", "a", "m", "e">>, "string")>>],
                [PropDef(<<"C", "a", "t">>, "object") EXCEPT
                    !.subtype = TRUE, !.optional = TRUE,
                    !.validators = Specs(<<"validator3">>),
                    !.props = <<PropDef(<<"l", "i", "v", "e", "s">>, "number")>>] >>],
        [PropDef(<<"t", "a", "g", "s">>, "string") EXCEPT !.card = "map", !.optional = TRUE] >>)
     EXCEPT !.validators = Specs(<<"validator1">>)]

CalendarEntryDef ==
    [RecordTypeDef(<<"C", "a", "l", "e", "n", "d", "a", "r", "E", "n", "t", "r", "y">>, <<
        [PropDef(<<"t", "i", "m", "e", "F", "r", "o", "m">>, "string") EXCEPT !.validators = Specs(<<"time">>)],
        [PropDef(<<"t", "i", "m", "e", "T", "o">>, "string") EXCEPT !.validators = Specs(<<"time">>)] >>)
     EXCEPT !.validators = Specs(<<"timeRange">>)]

\* a record type whose record validator is 'rangeDef' on two optional times
ShiftDef ==
    [RecordTypeDef(<<"S", "h", "i", "f", "t">>, <<
        [PropDef(<<"timeFrom">>, "string") EXCEPT
            !.optional = TRUE, !.validators = Specs(<<"time">>)],
        [PropDef(<<"timeTo">>, "string") EXCEPT
            !.optional = TRUE, !.validators = Specs(<<"time">>)] >>)
     EXCEPT !.validators =
        Arr(<<Arr(<<Str(<<"rangeDef">>), Str(<<"timeFrom">>), Str(<<"timeTo">>)>>)>>)]

\* a record type with requiredIf('type', 'CREDIT') on its optional cardNumber
PaymentDef ==
    RecordTypeDef(<<"P", "a", "y", "m", "e", "n", "t">>, <<
        PropDef(<<"type">>, "string"),
        [PropDef(<<"cardNumber">>, "string") EXCEPT
            !.optional = TRUE,
            !.validators = Arr(<<Arr(<<Str(<<"requiredIf">>), Str(<<"type">>),
                                       Str(<<"CREDIT">>)>>)>>)] >>)

\* a record type whose optional properties carry several conditional rules on
\* the sibling 'kind'
PromoDef ==
    RecordTypeDef(<<"P", "r", "o", "m", "o">>, <<
        PropDef(<<"kind">>, "string"),
        [PropDef(<<"code">>, "string") EXCEPT
            !.optional = TRUE,
            !.validators = Arr(<<
                Arr(<<Str(<<"requiredIf">>), Str(<<"kind">>), Str(<<"A">>)>>),
                Arr(<<Str(<<"requiredUnless">>), Str(<<"kind">>), Str(<<"B">>)>>),
                Arr(<<Str(<<"requiredUnless">>), Str(<<"kind">>)>>),
                Arr(<<Str(<<"requiredIf">>), Str(<<"kind">>)>>) >>)],
        [PropDef(<<"note">>, "string") EXCEPT
            !.optional = TRUE,
            !.validators = Arr(<<
                Arr(<<Str(<<"emptyIf">>), Str(<<"kind">>), Str(<<"A">>)>>),
                Arr(<<Str(<<"emptyUnless">>), Str(<<"kind">>), Str(<<"B">>)>>),
                Arr(<<Str(<<"emptyUnless">>), Str(<<"kind">>)>>),
                Arr(<<Str(<<"emptyIf">>), Str(<<"kind">>)>>) >>)] >>)

\* a record type with a required property of every kind the emptiness test
\* tells apart; the elements of its collections are required too
FormDef ==
    RecordTypeDef(<<"F", "o", "r", "m">>, <<
        PropDef(<<"title">>, "string"),
        PropDef(<<"count">>, "number"),
        PropDef(<<"done">>, "boolean"),
        [PropDef(<<"labels">>, "string") EXCEPT
            !.card = "array", !.elementValidators = Specs(<<"required">>)],
        [PropDef(<<"attrs">>, "string") EXCEPT
            !.card = "map", !.elementValidators = Specs(<<"required">>)] >>)

\* a record type with two optional numbers whose chains hold validating rules
\* only: the type check with 'needs', and the type check with 'conflicts'
CardDef ==
    RecordTypeDef(<<"C", "a", "r", "d">>, <<
        [PropDef(<<"type">>, "string") EXCEPT !.optional = TRUE],
        [PropDef(<<"cvv">>, "number") EXCEPT
            !.optional = TRUE,
            !.validators = Arr(<<Arr(<<Str(<<"needs">>), Null, Str(<<"type">>),
                                       Str(<<"CREDIT">>)>>)>>)],
        [PropDef(<<"limit">>, "number") EXCEPT
            !.optional = TRUE,
            !.validators = Arr(<<Arr(<<Str(<<"conflicts">>), Null,
                                       Str(<<"type">>)>>)>>)] >>)

\* a record type with a nested object, an array of objects and a map of objects
OrderDef ==
    RecordTypeDef(<<"O", "r", "d", "e", "r">>, <<
        [PropDef(<<"shipTo">>, "object") EXCEPT
            !.optional = TRUE,
            !.props = <<PropDef(<<"city">>, "string")>>],
        [PropDef(<<"items">>, "object") EXCEPT
            !.card = "array", !.optional = TRUE,
            !.props = <<PropDef(<<"sku">>, "string")>>],
        [PropDef(<<"parts">>, "object") EXCEPT
            !.card = "map", !.optional = TRUE,
            !.props = <<PropDef(<<"n">>, "number")>>] >>)

\* a record type with a property whose default validators are all taken out
\* with '-id' in the set '*', and which has a validator in another set
MemoDef ==
    RecordTypeDef(<<"M", "e", "m", "o">>, <<
        [PropDef(<<"text">>, "string") EXCEPT
            !.optional = TRUE,
            !.validators = SetsObj(<<
                SetEntry(<<"*">>, Arr(<<Str(<<"-", "string">>), Str(<<"-", "trim">>)>>)),
                SetEntry(<<"set1">>, Specs(<<"lowercase">>)) >>)] >>)

\* the 'rank' of the Contact of the manual (README.md: Usage)
RankingDef ==
    RecordTypeDef(<<"R", "a", "n", "k", "i", "n", "g">>, <<
        [PropDef(<<"r", "a", "n", "k">>, "number") EXCEPT
            !.validators = Arr(<<Str(<<"integer">>),
                                 Arr(<<Str(<<"range">>), Num(1), Num(10)>>)>>)] >>)

LibraryDef == <<ContactDef, MyRecordDef, ExamDef, OwnerDef, CalendarEntryDef, RankingDef,
                ShiftDef, PaymentDef, FormDef, CardDef, OrderDef, MemoDef, PromoDef>>

\* records.with(validators).buildLibrary(definition): extendRecordTypesLibrary
\* tags the library, and every record type and property is extended
Library ==
    [tagged |-> TRUE, types |-> [i \in 1..Len(LibraryDef) |-> ExtendRecordType(LibraryDef[i])]]

\* a library built without the extension
UntaggedLibrary == [tagged |-> FALSE, types |-> Library.types]

(***************************************************************************)
(* The records and arguments the application calls normalizeRecord with.   *)
(***************************************************************************)
MaxElems == 3

StringsUpTo(chars, n) == UNION {[1..k -> chars] : k \in 0..n}
ArraysUpTo(values, n) == UNION {[1..k -> values] : k \in 0..n}

JohnWalrus == <<"J", "o", "h", "n", "@", "W", "a", "l", "r", "u", "s", ".", "c", "o", "m">>
NineOClock == <<"0", "9", ":", "0", "0">>
HalfPastTen == <<"1", "0", ":", "3", "0">>

ContactRecords ==
    {ObjOf(<< <<"name", n>>, <<"email", e>> >>) :
        n \in {Undefined, Num(5)} \cup {Str(x) : x \in StringsUpTo({" ", "a"}, MaxStrLen)},
        e \in {Undefined, Str(JohnWalrus), Str(<<"x">>)}}

MyRecords ==
    {ObjOf(<< <<"myProperty", v>> >>) : v \in {Undefined, Str(<<"a">>), Str(<<" ", "a">>)}}

ExamRecords ==
    {ObjOf(<< <<"scores", v>> >>) :
        v \in {Undefined, Str(<<"a">>)} \cup
              {Arr(a) : a \in ArraysUpTo({Num(1), NumAndHalf(1), Str(<<"a">>)}, MaxElems)}}
    \cup {ObjOf(<< <<"scores", Arr(<<Num(1)>>)>>, <<"best", b>>,
                    <<"summary", ObjOf(<< <<"label", l>> >>)>>, <<"extra", x>> >>) :
            b \in {Num(1), Str(<<" ", "a">>)},
            l \in {Undefined, Str(<<" ", "a">>)},
            x \in {Str(<<" ", "a">>)}}

Pets ==
    {Undefined, ObjOf(<< <<"type", Str(<<"B", "i", "r", "d">>)>> >>), ObjOf(<< <<"type", Num(1)>> >>),
     ObjOf(<< <<"type", Str(<<"t", "y", "p", "e">>)>> >>)}
    \cup {ObjOf(<< <<"type", Str(<<"D", "o", "g">>)>>, <<"name", n>> >>) :
            n \in {Undefined, Num(1), Str(<<"a">>), Str(<<" ", "a">>)}}
    \cup {ObjOf(<< <<"type", Str(<<"C", "a", "t">>)>>, <<"lives", l>> >>) :
            l \in {Undefined, Num(9), Str(<<"a">>)}}

OwnerRecords ==
    {ObjOf(<< <<"pet", p>>, <<"tags", t>> >>) :
        p \in Pets,
        t \in {Undefined, ObjOf(<< <<"k", Str(<<" ", "a">>)>> >>),
               ObjOf(<< <<"k", Str(<<"a">>)>>, <<"j", Num(1)>> >>)}}

CalendarRecords ==
    {ObjOf(<< <<"timeFrom", f>>, <<"timeTo", t>> >>) :
        f \in {Undefined, Str(NineOClock), Str(HalfPastTen), Str(<<" ">> \o NineOClock), Str(<<"9">>)},
        t \in {Undefined, Str(NineOClock), Str(HalfPastTen), Str(<<" ">> \o NineOClock), Str(<<"9">>)}}

ShiftRecords ==
    {ObjOf(<< <<"timeFrom", f>>, <<"timeTo", t>> >>) :
        f \in {Undefined, Null, Str(NineOClock), Str(HalfPastTen), Str(<<"9">>)},
        t \in {Undefined, Null, Str(NineOClock), Str(HalfPastTen), Str(<<"9">>)}}

PaymentRecords ==
    {ObjOf(<< <<"type", t>>, <<"cardNumber", c>> >>) :
        t \in {Undefined, Str(<<"CREDIT">>), Str(<<"DEBIT">>), Num(5)},
        c \in {Undefined, Null, Str(<<>>), Str(<<"4">>), Num(4)}}

PromoRecords ==
    {ObjOf(<< <<"kind", k>>, <<"code", c>>, <<"note", n>> >>) :
        k \in {Undefined, Str(<<"A">>), Str(<<"B">>), Num(5)},
        c \in {Undefined, Str(<<"x">>)},
        n \in {Undefined, Str(<<"x">>)}}

FilledForm ==
    ObjOf(<< <<"title", Str(<<"a">>)>>, <<"count", Num(1)>>, <<"done", Bool(TRUE)>>,
             <<"labels", Arr(<<Str(<<"a">>)>>)>>,
             <<"attrs", ObjOf(<< <<"k", Str(<<"a">>)>> >>)>> >>)

\* a filled form with one property replaced
FormRecords ==
    {SetProp(FilledForm, "title", v) :
        v \in {Undefined, Null, Str(<<>>), Str(<<"a">>), Num(0), Arr(<<>>)}}
    \cup {SetProp(FilledForm, "count", v) :
        v \in {Undefined, Null, Num(0), Str(<<>>)}}
    \cup {SetProp(FilledForm, "done", v) :
        v \in {Undefined, Null, Bool(FALSE), Num(0)}}
    \cup {SetProp(FilledForm, "labels", v) :
        v \in {Undefined, Null, Arr(<<>>), EmptyObj, Str(<<>>),
               Arr(<<Str(<<>>)>>), Arr(<<Null>>), Arr(<<Arr(<<>>)>>), Arr(<<Num(0)>>)}}
    \cup {SetProp(FilledForm, "attrs", v) :
        v \in {Undefined, Null, EmptyObj, Arr(<<>>), Str(<<>>),
               ObjOf(<< <<"k", Str(<<>>)>> >>), ObjOf(<< <<"k", EmptyObj>> >>),
               ObjOf(<< <<"k", Bool(FALSE)>> >>)}}

CardRecords ==
    {ObjOf(<< <<"type", t>>, <<"cvv", c>>, <<"limit", l>> >>) :
        t \in {Undefined, Str(<<"CREDIT">>), Str(<<"DEBIT">>)},
        c \in {Undefined, Num(7), Str(<<"x">>)},
        l \in {Undefined, Num(7)}}

OrderRecords ==
    {ObjOf(<< <<"shipTo", s>>, <<"items", i>>, <<"parts", p>> >>) :
        s \in {Undefined, ObjOf(<< <<"city", Str(<<"a">>)>> >>),
               ObjOf(<< <<"city", Undefined>> >>)},
        i \in {Undefined, Arr(<<>>), Arr(<<Null>>),
               Arr(<<ObjOf(<< <<"sku", Str(<<"a">>)>> >>)>>),
               Arr(<<ObjOf(<< <<"sku", Str(<<"a">>)>> >>),
                     ObjOf(<< <<"sku", Undefined>> >>)>>)},
        p \in {Undefined, ObjOf(<< <<"k", ObjOf(<< <<"n", Num(1)>> >>)>> >>),
               ObjOf(<< <<"k", ObjOf(<< <<"n", Str(<<"x">>)>> >>)>> >>)}}

MemoRecords == {ObjOf(<< <<"text", t>> >>) : t \in {Undefined, Str(<<"A">>)}}

RankingRecords ==
    {ObjOf(<< <<"rank", r>> >>) :
        r \in {Undefined, Num(0), Num(1), Num(10), Num(11), NumAndHalf(5), NumAndHalf(10),
               Str(<<"5">>)}}

Typed(type, values) == {[type |-> type, value |-> v] : v \in values}

Records ==
    Typed("Contact", ContactRecords \cup {Null, Undefined, Str(<<"a">>), Num(1), Arr(<<>>)})
        \cup Typed("MyRecord", MyRecords)
        \cup Typed("Exam", ExamRecords)
        \cup Typed("Owner", OwnerRecords)
        \cup Typed("CalendarEntry", CalendarRecords)
        \cup Typed("Ranking", RankingRecords)
        \cup Typed("Shift", ShiftRecords)
        \cup Typed("Payment", PaymentRecords)
        \cup Typed("Form", FormRecords)
        \cup Typed("Card", CardRecords)
        \cup Typed("Order", OrderRecords)
        \cup Typed("Memo", MemoRecords)
        \cup Typed("Promo", PromoRecords)
        \cup Typed("Unknown", {EmptyObj})

Langs == {Undefined, Str(<<"e", "n", "-", "U", "S">>)}
SetsArgs ==
    {Undefined, Str(<<"s", "e", "t", "1">>),
     Str(<<" ", "s", "e", "t", "1", " ", ",", " ", "s", "e", "t", "2">>),
     Str(ElementPrefix \o StarSet)}

(***************************************************************************)
(* The application: it holds a record and calls normalizeRecord on it,     *)
(* again and again, with the language and the validation sets it works     *)
(* with.  The library is built once; lib tells which of the two it is.     *)
(***************************************************************************)
NoCall ==
    [made |-> FALSE, lang |-> Undefined, validationSets |-> Undefined, before |-> Undefined,
     outcome |-> "none", result |-> Undefined, errors |-> NoErrors, log |-> <<>>,
     stand |-> NoStand]

CvIdle ==
    [specs |-> <<>>, pos |-> 0, before |-> NothingBuilt, built |-> NothingBuilt,
     done |-> FALSE, compiled |-> <<>>]
MrIdle ==
    [entries |-> <<>>, lang |-> <<>>, langs |-> <<>>, tmpls |-> Undefined,
     rendered |-> Undefined]
VeIdle ==
    [errors |-> NoErrors, calls |-> <<>>]
AeIdle ==
    [lang |-> Undefined, errors |-> NoErrors, calls |-> <<>>]

Init ==
    /\ lib \in {"extended", "plain"}
    /\ record \in Records
    /\ call = NoCall
    /\ prev = NoCall
    /\ cv = CvIdle
    /\ mr = MrIdle
    /\ ve = VeIdle
    /\ ae = AeIdle

RecordTypes == IF lib = "extended" THEN Library ELSE UntaggedLibrary

normalizeRecord(lang, validationSets) ==
    /\ call.made => lang = call.lang /\ validationSets = call.validationSets
    /\ \E out \in {NormalizeRecord(RecordTypes, record.type, record.value,
                                    lang, validationSets)} :
        /\ record' = [record EXCEPT !.value = out.record]
        /\ call' = [made |-> TRUE, lang |-> lang, validationSets |-> validationSets,
                    before |-> record.value, outcome |-> out.outcome,
                    result |-> out.result, errors |-> out.errors, log |-> out.log,
                    stand |-> out.stand]
        /\ prev' = call
        /\ UNCHANGED <<lib, cv, mr, ve, ae>>

Next == \E lang \in Langs, validationSets \in SetsArgs : normalizeRecord(lang, validationSets)

Spec == Init /\ [][Next]_vars

(***************************************************************************)
(* Properties of normalizeRecord, read off the history of the last call.   *)
(***************************************************************************)
Returned == call.made /\ call.outcome = "returned"
Reported(e) == e.errs # e.seen

\* the descriptor of the record type of the record at hand
TypeDesc == GetRecordTypeDesc(Library, record.type)

\* the names of the properties of the record types
FieldNames ==
    UNION {{Library.types[t].props[i].name : i \in 1..Len(Library.types[t].props)} :
            t \in 1..Len(Library.types)}

RuleEventsAt(slot, kind) ==
    SelectSeq(call.log, LAMBDA e : e.ev = "rule" /\ e.kind = kind /\ e.slot = slot)
WritesAt(slot) == SelectSeq(call.log, LAMBDA e : e.ev = "write" /\ e.slot = slot)
Slots(kind) ==
    {call.log[i].slot :
        i \in {j \in 1..Len(call.log) : call.log[j].ev = "rule" /\ call.log[j].kind = kind}}
Ids(list) == [i \in 1..Len(list) |-> list[i].id]

\* C1: in every call, a validator of the record type runs after every validator
\* of every property and element and after every write into the record (it is
\* handed the record as the call leaves it), and what hasErrorsFor('/x') tells
\* it is whether a validator of property x has reported an error before
RecordChainRunsLast ==
    call.made =>
        \A i \in 1..Len(call.log) :
            call.log[i].kind = "record" =>
                /\ \A j \in (i + 1)..Len(call.log) : call.log[j].kind = "record"
                /\ call.log[i].arg = record.value
                /\ \A x \in FieldNames :
                      VE_hasErrors(call.log[i].seen, "/" \o x)
                        <=> \E j \in 1..(i - 1) :
                                /\ call.log[j].kind = "field"
                                /\ call.log[j].at = <<x>>
                                /\ Reported(call.log[j])

\* a record validator ran after a property reported an error and another was
\* normalized
RecordChainRunsLastWitness ==
    /\ call.made
    /\ \E i \in 1..Len(call.log) :
          /\ call.log[i].kind = "record"
          /\ call.log[i].id = "timeRange"
          /\ VE_hasErrors(call.log[i].seen, "/timeFrom")
          /\ \E j \in 1..(i - 1) : call.log[j].ev = "write"

\* C2: a call that returns gives null exactly when nothing (no validator, nor
\* the engine) reported an error during it, and otherwise the errors object,
\* every key of which holds at least one message
NullIffNoError ==
    Returned =>
        /\ (call.result = Null) <=> (\A i \in 1..Len(call.log) : ~Reported(call.log[i]))
        /\ call.result # Null =>
              /\ call.result.t = "errors"
              /\ call.result.e = call.errors
              /\ \A key \in DOMAIN call.result.e : Len(call.result.e[key]) >= 1

\* a call returned the errors object that holds an error of the engine
NullIffNoErrorWitness ==
    /\ Returned
    /\ call.result # Null
    /\ \E i \in 1..Len(call.log) : call.log[i].ev = "engine" /\ Reported(call.log[i])

JohnWalrusLower == <<"j", "o", "h", "n", "@", "w", "a", "l", "r", "u", "s", ".", "c", "o", "m">>

\* C3: the validators of the chain of a property (of an element) run in the
\* order of the chain, the first on the value read from the container and each
\* next one on what the one before returned, and the slot is written, once and
\* with the last value returned, exactly when that value !== the value read;
\* every property that is not a view has its chain run, a view has none.
\* [email, lowercase] on "John@Walrus.com" stores "john@walrus.com", no error.
ChainThreadsAndWritesBack ==
    Returned =>
        /\ \A kind \in {"field", "element"} : \A slot \in Slots(kind) :
              LET events == RuleEventsAt(slot, kind)
                  writes == WritesAt(slot)
                  chain == GetValidators(ParsePointer(TypeDesc, events[1].at).desc,
                                         kind = "element",
                                         ValidationSets(call.validationSets)).list
                  original == GetPath(call.before, slot)
                  final == events[Len(events)].ret
              IN  /\ Ids(events) = Ids(chain)
                  /\ IF IsComposite(original) THEN events[1].arg.t = original.t
                     ELSE events[1].arg = original
                  /\ \A i \in 2..Len(events) : events[i].arg = events[i - 1].ret
                  /\ Len(writes) = (IF StrictNotEqual(final, events[1].arg) THEN 1 ELSE 0)
                  /\ \A i \in 1..Len(writes) :
                        writes[i].arg = events[1].arg /\ writes[i].ret = final
                  /\ ~IsComposite(final) => GetPath(record.value, slot) = final
        /\ \A i \in 1..Len(call.log) :
              call.log[i].ev = "write" =>
                  call.log[i].slot \in Slots("field") \cup Slots("element")
        /\ \A i \in 1..Len(TypeDesc.props) :
              LET propDesc == TypeDesc.props[i]
                  chain == GetValidators(propDesc, FALSE,
                                         ValidationSets(call.validationSets)).list
              IN  IF propDesc.view
                  THEN \A j \in 1..Len(call.log) : call.log[j].slot # <<propDesc.name>>
                  ELSE Ids(RuleEventsAt(<<propDesc.name>>, "field")) = Ids(chain)
        /\ (record.type = "Contact" /\ GetProp(call.before, "email") = Str(JohnWalrus)) =>
              /\ ~VE_hasErrors(call.errors, "/email")
              /\ GetProp(record.value, "email") = Str(JohnWalrusLower)

\* "John@Walrus.com" went through the chain of 'email' and was written back
ChainThreadsAndWritesBackWitness ==
    /\ Returned
    /\ record.type = "Contact"
    /\ GetProp(call.before, "email") = Str(JohnWalrus)
    /\ Len(WritesAt(<<"email">>)) = 1
    /\ Len(RuleEventsAt(<<"email">>, "field")) > 1

\* C4: when a call returned null, the next call on the record it left, with
\* the same language and validation sets, returns null too and leaves every
\* value of the record as it was
Idempotent ==
    (prev.made /\ prev.outcome = "returned" /\ prev.result = Null /\ call.made) =>
        /\ call.outcome = "returned"
        /\ call.result = Null
        /\ record.value = call.before
        /\ call.lang = prev.lang /\ call.validationSets = prev.validationSets

\* a name of white space only: valid for the first call, missing for the second
IdempotentFailure ==
    /\ prev.made /\ prev.outcome = "returned" /\ prev.result = Null
    /\ record.type = "Contact"
    /\ GetProp(prev.before, "name") = Str(<<" ", " ">>)
    /\ call.made /\ call.result # Null
    /\ VE_hasErrors(call.errors, "/name")

\* the validators of the manual's example that a call ran on 'myProperty'
ExampleValidatorsRun ==
    Ids(SelectSeq(RuleEventsAt(<<"myProperty">>, "field"),
                  LAMBDA e : e.id \in {"validator1", "validator2", "validator3", "validator4"}))

\* C6: on the property of the manual's example, a call with validation sets
\* 'set1' runs validator1, then validator3, then validator4, and not validator2
ReadmeValidationSetsOrder ==
    (Returned /\ record.type = "MyRecord" /\ call.validationSets = Str(<<"s", "e", "t", "1">>)) =>
        ExampleValidatorsRun = <<"validator1", "validator3", "validator4">>

\* the call ran validator4 first
ReadmeValidationSetsOrderFailure ==
    /\ Returned /\ record.type = "MyRecord" /\ call.validationSets = Str(<<"s", "e", "t", "1">>)
    /\ ExampleValidatorsRun = <<"validator4", "validator1", "validator3">>

\* the validation sets the caller named, and '*'
ActiveSets ==
    {"*"} \cup (CASE call.validationSets = Str(<<"s", "e", "t", "1">>) -> {"set1"}
                  [] call.validationSets = Str(<<" ", "s", "e", "t", "1", " ", ",", " ", "s", "e", "t", "2">>) -> {"set1", "set2"}
                  [] call.validationSets = Str(ElementPrefix \o StarSet) -> {"element:*"}
                  [] OTHER -> {})

RECURSIVE Selection(_, _, _)
\* the lists of the declared sets that are active, one after the other
Selection(entries, element, active) ==
    IF entries = <<>> THEN <<>>
    ELSE LET key == Head(entries).key
             n == Len(ElementPrefix)
             isElementKey == Len(key) >= n /\ SubSeq(key, 1, n) = ElementPrefix
             name == IF element THEN SubSeq(key, n + 1, Len(key)) ELSE key
             taken == (element => isElementKey) /\ Join(name) \in active
         IN  (IF taken THEN Head(entries).val ELSE <<>>)
                \o Selection(Tail(entries), element, active)

\* the validators objects of the record type at hand, of its properties and of
\* their nested properties
Subjects ==
    {TypeDesc.validators}
        \cup {TypeDesc.props[i].validators : i \in 1..Len(TypeDesc.props)}
        \cup UNION {{TypeDesc.props[i].nestedProperties.props[j].validators :
                        j \in 1..Len(TypeDesc.props[i].nestedProperties.props)} :
                    i \in 1..Len(TypeDesc.props)}

\* C7: getValidators gives the lists of the declared sets whose name (without
\* 'element:' for an element chain) is one the caller named or '*', in the
\* order the sets are declared, each list in its order; null when that selects
\* nothing, and then the traversal runs no validator for it and the call
\* reports nothing because of it
ResolvedChains ==
    (call.made /\ HasRecordType(Library, record.type)) =>
        /\ ValidationSets(call.validationSets) = ActiveSets
        /\ \A validators \in Subjects : \A element \in BOOLEAN :
              LET got == GetValidators([validators |-> validators], element,
                                       ValidationSets(call.validationSets))
                  want == Selection(validators.sets, element, ActiveSets)
              IN  got.list = want /\ (got.null <=> want = <<>>)
        /\ Returned =>
              /\ Ids(RuleEventsAt(<<>>, "record"))
                    = Ids(Selection(TypeDesc.validators.sets, FALSE, ActiveSets))
              /\ \A i \in 1..Len(TypeDesc.props) :
                    Ids(RuleEventsAt(<<TypeDesc.props[i].name>>, "field"))
                        = Ids(Selection(TypeDesc.props[i].validators.sets, FALSE, ActiveSets))
              /\ call.errors = IF call.log = <<>> THEN NoErrors
                                ELSE call.log[Len(call.log)].errs

\* the record type declares validators for 'set2' only; the call named 'set1':
\* no chain for the record, no validator of the record ran, the call gave null
ResolvedChainsWitness ==
    /\ Returned /\ record.type = "MyRecord" /\ call.validationSets = Str(<<"s", "e", "t", "1">>)
    /\ TypeDesc.validators.sets # <<>>
    /\ GetValidators(TypeDesc, FALSE, ValidationSets(call.validationSets)).null
    /\ RuleEventsAt(<<>>, "record") = <<>>
    /\ call.log # <<>>
    /\ call.result = Null

\* the rules that report with ctx.addErrorFor, for an address they name
AddressingRules == {"rangeDef"}

\* C9: while a chain runs, the pointer is the pointer of the parent extended by
\* the name of the property ('V:name' for a property of variant V) or by the
\* index or key of the element, and the validator's errors are keyed by it:
\* '/scores/2' for element 2 of 'scores', '/pet/Dog:name' for 'name' of a Dog
ErrorKeysFollowPointers ==
    (call.made /\ HasRecordType(Library, record.type)) =>
        /\ \A i \in 1..Len(call.log) :
              LET e == call.log[i]
                  n == Len(e.slot)
                  parentSlot == SubSeq(e.slot, 1, n - 1)
                  parentAt == SubSeq(e.at, 1, n - 1)
                  container == GetPath(call.before, parentSlot)
                  variant ==
                      /\ n > 1 /\ e.kind = "field"
                      /\ ParsePointer(TypeDesc, parentAt).desc.nestedProperties.poly
              IN  e.ev = "rule" =>
                    /\ Len(e.at) = n
                    /\ e.kind \in {"field", "element"} =>
                          /\ e.at[n] = IF variant
                                       THEN Join(GetProp(container, "type").s) \o ":" \o e.slot[n]
                                       ELSE e.slot[n]
                          /\ \A j \in 1..Len(call.log) :
                                (call.log[j].ev = "rule" /\ call.log[j].slot = parentSlot
                                    /\ call.log[j].kind # "subtype")
                                    => call.log[j].at = parentAt
                    /\ \A key \in DOMAIN e.errs :
                          (/\ e.id \notin AddressingRules
                           /\ key \notin DOMAIN e.seen \/ e.errs[key] # e.seen[key])
                              => key = PtrStr(e.at)
        /\ (/\ lib = "extended" /\ record.type = "Exam"
            /\ GetProp(call.before, "scores").t = "array"
            /\ GetProp(GetProp(call.before, "scores"), "2") = NumAndHalf(1)) =>
              Returned /\ "/scores/2" \in DOMAIN call.errors
        /\ (/\ lib = "extended" /\ record.type = "Owner"
            /\ GetProp(call.before, "pet")
                  = ObjOf(<< <<"type", Str(<<"D", "o", "g">>)>>, <<"name", Undefined>> >>)) =>
              Returned /\ "/pet/Dog:name" \in DOMAIN call.errors

\* a Dog without a name and a tag that is no string: errors keyed by the
\* variant's property and by the key of the element
ErrorKeysFollowPointersWitness ==
    /\ Returned /\ record.type = "Owner"
    /\ "/pet/Dog:name" \in DOMAIN call.errors
    /\ "/tags/j" \in DOMAIN call.errors

\* C10: a call with a record that is null or no object, or with a library the
\* extension did not tag (isSupported tells which), ends with X2UsageError
\* before anything is traversed: no validator ran, no error was recorded and the
\* record is as it was
UsageFaultBeforeTraversal ==
    /\ IsSupported(RecordTypes) <=> lib = "extended"
    /\ (call.made /\ (call.before.t = "null" \/ TypeOf(call.before) # "object"
                        \/ ~IsSupported(RecordTypes))) =>
          /\ call.outcome = "X2UsageError"
          /\ call.log = <<>>
          /\ call.errors = NoErrors
          /\ record.value = call.before

\* a call with a record object and a library without the tag
UsageFaultBeforeTraversalWitness ==
    /\ call.made /\ lib = "plain" /\ IsObjectValue(call.before)
    /\ record.type = "Contact"
    /\ call.outcome = "X2UsageError"

(***************************************************************************)
(* createValidators at work on the list of one validation set (the default *)
(* validators first, then those of the definition): one step for each      *)
(* specification of the list, and a last one that stores the chain.        *)
\* a call that normalized a Shift, whose record validator is
\* rangeDef('timeFrom', 'timeTo')
ShiftCall == call.made /\ record.type = "Shift" /\ call.outcome = "returned"

\* C13: rangeDef(lo, hi) on an object reports nothing when the address of lo or
\* of hi has an error already or when one of the two values is null or
\* undefined; otherwise, when lo's value is greater than hi's, it adds exactly
\* one error, at hi's address and made with lo's title, and none at lo's address:
\* { timeFrom: "10:30", timeTo: "09:00" } gives an error at '/timeTo' only
RangeDefReportsAtHigh ==
    /\ ShiftCall =>
          \A i \in 1..Len(call.log) :
              LET e == call.log[i]
                  lo == GetProp(e.arg, "timeFrom")
                  hi == GetProp(e.arg, "timeTo")
                  skipped == \/ "/timeFrom" \in DOMAIN e.seen
                             \/ "/timeTo" \in DOMAIN e.seen
                             \/ IsNullish(lo) \/ IsNullish(hi)
              IN  (e.ev = "rule" /\ e.id = "rangeDef" /\ e.arg.t = "object") =>
                    /\ skipped => e.errs = e.seen
                    /\ (~skipped /\ JsLess(hi, lo)) =>
                          e.errs = ("/timeTo" :> <<"Must be greater than timeFrom.">>)
                                       @@ e.seen
    /\ (ShiftCall /\ call.before = ObjOf(<< <<"timeFrom", Str(HalfPastTen)>>,
                                            <<"timeTo", Str(NineOClock)>> >>)) =>
          call.result = [t |-> "errors",
                         e |-> ("/timeTo" :> <<"Must be greater than timeFrom.">>)]

RangeDefReportsAtHighWitness ==
    /\ ShiftCall
    /\ call.before = ObjOf(<< <<"timeFrom", Str(HalfPastTen)>>,
                              <<"timeTo", Str(NineOClock)>> >>)
    /\ \E i \in 1..Len(call.log) :
          /\ call.log[i].id = "rangeDef"
          /\ call.log[i].seen = NoErrors
          /\ "/timeTo" \in DOMAIN call.log[i].errs

\* a call that normalized a Payment of the given type with no cardNumber
PaymentCall(type) ==
    /\ call.made /\ record.type = "Payment" /\ call.outcome = "returned"
    /\ call.before = ObjOf(<< <<"type", Str(<<type>>)>>, <<"cardNumber", Undefined>> >>)

\* C14: with requiredIf('type', 'CREDIT') on the optional cardNumber,
\* { type: 'CREDIT' } without a cardNumber gets exactly one error at
\* '/cardNumber', and { type: 'DEBIT' } without a cardNumber gets none there
RequiredIfFollowsSibling ==
    /\ PaymentCall("CREDIT") =>
          /\ "/cardNumber" \in DOMAIN call.errors
          /\ Len(call.errors["/cardNumber"]) = 1
          /\ call.result = [t |-> "errors",
                            e |-> ("/cardNumber" :> <<"Requried when type is CREDIT.">>)]
    /\ PaymentCall("DEBIT") =>
          /\ "/cardNumber" \notin DOMAIN call.errors
          /\ call.result = Null

RequiredIfFollowsSiblingWitness ==
    /\ PaymentCall("CREDIT")
    /\ \E i \in 1..Len(call.log) :
          /\ call.log[i].id = "requiredIf"
          /\ call.log[i].at = <<"cardNumber">>
          /\ call.log[i].errs # call.log[i].seen

FormCall == call.made /\ record.type = "Form" /\ call.outcome = "returned"

\* the errors object after a 'Missing value.' at the address
WithMissing(errors, key) ==
    (key :> Append(IF key \in DOMAIN errors THEN errors[key] ELSE <<>>, "Missing value."))
        @@ errors

\* C15: 'required' finds a value empty, and reports 'missing', exactly when it is
\* null or undefined, or a zero-length array on an array property or an object
\* without keys on a map property and the address is the one of the whole
\* collection, or the empty string on a scalar string property or on an element
\* of a string collection; 0 and false are never empty.  So '' and null on the
\* required 'title' both report 'Missing value.', and so does [] on 'labels'
\* (the only message of the call, unless the caller names the element sets and
\* has the validators of the elements run on the array as well)
EmptinessClasses ==
    FormCall =>
        /\ \A i \in 1..Len(call.log) :
              LET e == call.log[i]
                  v == e.arg
                  field == e.at[1]
                  element == Len(e.at) = 2
                  empty ==
                      \/ v.t \in {"undefined", "null"}
                      \/ /\ ~element /\ field = "labels"
                         /\ v.t = "array" /\ Len(v.a) = 0
                      \/ /\ ~element /\ field = "attrs"
                         /\ \/ v.t = "object" /\ Len(v.k) = 0
                            \/ v.t = "array" /\ Len(v.a) = 0
                      \/ /\ element \/ field = "title"
                         /\ v.t = "string" /\ Len(v.s) = 0
              IN  (e.ev = "rule" /\ e.id = "required" /\ Len(e.at) \in {1, 2}) =>
                    /\ empty => e.errs = WithMissing(e.seen, PtrStr(e.at))
                    /\ ~empty => e.errs = e.seen
                    /\ (v = Num(0) \/ v = Bool(FALSE)) => e.errs = e.seen
        /\ (\E v \in {Null, Str(<<>>)} : call.before = SetProp(FilledForm, "title", v)) =>
              /\ "/title" \in DOMAIN call.errors
              /\ call.errors["/title"] = <<"Missing value.">>
              /\ "element:*" \notin ActiveSets =>
                    call.result = [t |-> "errors", e |-> ("/title" :> <<"Missing value.">>)]
        /\ call.before = SetProp(FilledForm, "labels", Arr(<<>>)) =>
              /\ "/labels" \in DOMAIN call.errors
              /\ call.errors["/labels"][1] = "Missing value."
              /\ "element:*" \notin ActiveSets =>
                    call.result = [t |-> "errors", e |-> ("/labels" :> <<"Missing value.">>)]

EmptinessClassesWitness ==
    /\ FormCall
    /\ call.before = SetProp(FilledForm, "labels", Arr(<<Str(<<>>)>>))
    /\ call.result = [t |-> "errors", e |-> ("/labels/0" :> <<"Missing value.">>)]

\* the rules that validate and do not normalize
ValidatingRules ==
    {"required", "empty", "string", "number", "boolean", "object", "array", "noDupes",
     "integer", "range", "rangeDef", "requiredIf", "needs", "conflicts", "email", "time"}

\* C16, as stated: a validating rule returns, and returns the value it was
\* given, so the 'cvv' and the 'limit' of a Card, whose chains hold validating
\* rules only, are never rewritten
ValidatingRulesKeepValue ==
    (call.made /\ lib = "extended" /\ record.type = "Card") =>
        /\ call.outcome = "returned"
        /\ \A i \in 1..Len(call.log) :
              (call.log[i].ev = "rule" /\ call.log[i].id \in ValidatingRules)
                  => call.log[i].ret = call.log[i].arg
        /\ GetProp(record.value, "cvv") = GetProp(call.before, "cvv")
        /\ GetProp(record.value, "limit") = GetProp(call.before, "limit")

\* { type: 'CREDIT', cvv: 7 } is valid, and its 'cvv' is undefined after the call
ValidatingRulesKeepValueFailure ==
    /\ call.made /\ lib = "extended" /\ record.type = "Card"
    /\ call.before = ObjOf(<< <<"type", Str(<<"CREDIT">>)>>, <<"cvv", Num(7)>>,
                              <<"limit", Undefined>> >>)
    /\ call.outcome = "returned" /\ call.result = Null
    /\ GetProp(record.value, "cvv") = Undefined
    /\ \E i \in 1..Len(call.log) :
          /\ call.log[i].id = "needs"
          /\ call.log[i].arg = Num(7) /\ call.log[i].ret = Undefined

\* the address a strictly extends the address b
Below(a, b) == Len(a) > Len(b) /\ SubSeq(a, 1, Len(b)) = b

\* C20: when a validator of a property or of an element runs, everything at the
\* addresses below it is done: the chains of the properties of a nested object
\* (of an object element) have run, in depth, before the first validator of the
\* property (of the element), and the chains of all the elements of a
\* collection before the first validator of the collection
ChildrenBeforeParent ==
    call.made =>
        \A i, j \in 1..Len(call.log) :
            (/\ call.log[i].ev = "rule"
             /\ call.log[i].kind \in {"field", "element"}
             /\ Below(call.log[j].at, call.log[i].at)) => j < i

\* an Order with two items: the chain of '/items/1/sku' ran before the one of
\* '/items/1', and this one before the one of '/items'
ChildrenBeforeParentWitness ==
    /\ call.made /\ record.type = "Order" /\ call.outcome = "returned"
    /\ \E i, j, k \in 1..Len(call.log) :
          /\ i < j /\ j < k
          /\ call.log[i].ev = "rule" /\ call.log[i].at = <<"items", "1", "sku">>
          /\ call.log[j].ev = "rule" /\ call.log[j].at = <<"items", "1">>
          /\ call.log[j].kind = "element"
          /\ call.log[k].ev = "rule" /\ call.log[k].at = <<"items">>
    /\ \E i, j \in 1..Len(call.log) :
          /\ i < j
          /\ call.log[i].ev = "rule" /\ call.log[i].at = <<"shipTo", "city">>
          /\ call.log[j].ev = "rule" /\ call.log[j].at = <<"shipTo">>
    /\ \E i, j \in 1..Len(call.log) :
          /\ i < j
          /\ call.log[i].ev = "rule" /\ call.log[i].at = <<"parts", "k", "n">>
          /\ call.log[j].ev = "rule" /\ call.log[j].at = <<"parts", "k">>

\* C21, as stated: every entry of every list createValidators leaves on a
\* descriptor is a function, also in a set whose validators were all taken out
\* with '-id', so the traversal never meets a chain with something else in it
ChainsHoldFunctions ==
    (call.made /\ lib = "extended" /\ record.type = "Memo") =>
        /\ \A i \in 1..Len(TypeDesc.props) :
              \A k \in 1..Len(TypeDesc.props[i].validators.sets) :
                 \A n \in 1..Len(TypeDesc.props[i].validators.sets[k].val) :
                    TypeDesc.props[i].validators.sets[k].val[n].t = "function"
        /\ call.outcome = "returned"

\* the set '*' of 'text' still holds 'string', 'trim', '-string', '-trim', and
\* the call ends in the TypeError of calling the first of them
ChainsHoldFunctionsFailure ==
    /\ call.made /\ lib = "extended" /\ record.type = "Memo"
    /\ ~TypeDesc.props[1].validators.null
    /\ \E k \in 1..Len(TypeDesc.props[1].validators.sets) :
          /\ TypeDesc.props[1].validators.sets[k].key = <<"*">>
          /\ TypeDesc.props[1].validators.sets[k].val
                = <<Str(<<"string">>), Str(<<"trim">>),
                     Str(<<"-", "string">>), Str(<<"-", "trim">>)>>
    /\ call.outcome = "TypeError"

\* C22: every descend has its ascend.  Whenever a validator runs or the engine
\* reports, the pointer stack and the containers chain are as deep as the
\* current address; the last container of the chain is the object or array that
\* holds the value and the first is the record; a validator of the record runs,
\* and normalize returns, with the pointer at the root and an empty chain.  So
\* what a property or an element (a polymorphic object with an invalid type
\* too) leaves behind is what it found
DescendsMatchAscends ==
    call.made =>
        /\ \A i \in 1..Len(call.log) :
              LET e == call.log[i]
                  depth == Len(e.stand.pointer)
              IN  /\ e.stand.stack = depth
                  /\ Len(e.stand.chain) = depth
                  /\ e.ev = "rule" => e.stand.pointer = e.at
                  /\ e.ev = "engine" => e.stand.pointer = SubSeq(e.at, 1, Len(e.at) - 1)
                  /\ (e.ev = "rule" /\ e.kind \in {"field", "element"}) =>
                        /\ depth = Len(e.slot)
                        /\ e.stand.chain[depth] = SubSeq(e.slot, 1, depth - 1)
                        /\ e.stand.chain[1] = <<>>
                        /\ \A d \in 1..depth : e.stand.chain[d] = SubSeq(e.slot, 1, d - 1)
                  /\ (e.ev = "rule" /\ e.kind = "record") =>
                        e.stand = NoStand
        /\ call.outcome = "returned" => call.stand = NoStand

\* an Owner whose pet has no valid type: the engine reported at '/pet/type',
\* the validators of 'pet' and of the record ran after it, and the call returned
DescendsMatchAscendsWitness ==
    /\ call.made /\ record.type = "Owner" /\ call.outcome = "returned"
    /\ \E i, j, k \in 1..Len(call.log) :
          /\ i < j /\ j < k
          /\ call.log[i].ev = "engine" /\ call.log[i].at = <<"pet", "type">>
          /\ call.log[j].ev = "rule" /\ call.log[j].at = <<"pet">>
          /\ call.log[k].ev = "rule" /\ call.log[k].kind = "record"

\* the validators that report through addDepsError
DepsRules == {"requiredIf", "requiredUnless", "emptyIf", "emptyUnless"}

\* the validators of the kind that reported at the address, in the last call
DepsReportsAt(at) ==
    SelectSeq(call.log, LAMBDA e : e.ev = "rule" /\ e.id \in DepsRules /\ e.at = at
                                   /\ Reported(e))

\* C23: in one call at most one of the validators requiredIf, requiredUnless,
\* emptyIf and emptyUnless adds an error at an address (one message more there,
\* nothing elsewhere), however many of them are in the chain with their
\* condition met; what was reported is forgotten with the call: the next call on
\* the same record reports the same errors again
OneDepsErrorPerAddress ==
    call.made =>
        /\ \A i \in 1..Len(call.log) :
              LET e == call.log[i]
              IN  (e.ev = "rule" /\ e.id \in DepsRules) =>
                    /\ Len(DepsReportsAt(e.at)) <= 1
                    /\ Reported(e) =>
                          /\ DOMAIN e.errs = DOMAIN e.seen \cup {PtrStr(e.at)}
                          /\ \A k \in DOMAIN e.seen \ {PtrStr(e.at)} : e.errs[k] = e.seen[k]
                          /\ Len(e.errs[PtrStr(e.at)]) =
                                (IF PtrStr(e.at) \in DOMAIN e.seen
                                 THEN Len(e.seen[PtrStr(e.at)]) ELSE 0) + 1
        /\ (prev.made /\ prev.before = call.before) =>
              /\ call.errors = prev.errors
              /\ call.result = prev.result

\* a Promo of kind 'A' without a code and with a note, normalized twice: both
\* requiredIf('kind', 'A') and requiredUnless('kind', 'B') apply to the code,
\* both emptyIf('kind', 'A') and emptyUnless('kind', 'B') to the note, and each
\* call has one message at each address
OneDepsErrorPerAddressWitness ==
    /\ prev.made /\ call.made /\ record.type = "Promo" /\ call.outcome = "returned"
    /\ call.before = ObjOf(<< <<"kind", Str(<<"A">>)>>, <<"code", Undefined>>,
                              <<"note", Str(<<"x">>)>> >>)
    /\ Ids(RuleEventsAt(<<"code">>, "field")) =
          <<"string", "trim", "requiredIf", "requiredUnless", "requiredUnless", "requiredIf">>
    /\ Ids(DepsReportsAt(<<"code">>)) = <<"requiredIf">>
    /\ Ids(DepsReportsAt(<<"note">>)) = <<"emptyIf">>
    /\ call.result = [t |-> "errors",
                      e |-> ("/code" :> <<"Requried when kind is A.">>)
                            @@ ("/note" :> <<"Expected to be empty when kind is A.">>)]
    /\ prev.result = call.result

\* the address of the sibling the conditional validators of the record type name
SiblingKey == IF record.type = "Payment" THEN "/type" ELSE "/kind"

\* C29: a requiredIf, requiredUnless, emptyIf or emptyUnless that runs when
\* there already is an error at the address of the sibling it names adds no
\* error, whatever the value, the value of the sibling and the test value are
NoDepsErrorOnSiblingErrors ==
    (call.made /\ record.type \in {"Payment", "Promo"}) =>
        \A i \in 1..Len(call.log) :
            LET e == call.log[i]
            IN  (e.ev = "rule" /\ e.id \in DepsRules /\ SiblingKey \in DOMAIN e.seen) =>
                    e.errs = e.seen

\* a Promo whose kind is a number, without a code and with a note: the eight
\* conditional validators ran after the error at '/kind', which is the only one
NoDepsErrorOnSiblingErrorsWitness ==
    /\ call.made /\ record.type = "Promo" /\ call.outcome = "returned"
    /\ call.before = ObjOf(<< <<"kind", Num(5)>>, <<"code", Undefined>>,
                              <<"note", Str(<<"x">>)>> >>)
    /\ \A id \in DepsRules : \E i \in 1..Len(call.log) :
          /\ call.log[i].id = id
          /\ "/kind" \in DOMAIN call.log[i].seen
    /\ DOMAIN call.errors = {"/kind"}

\* the subtypes the polymorphic 'pet' of an Owner declares
PetSubtypes == {"Dog", "Cat"}

\* the call normalized an Owner whose pet is an object with a type that is no
\* string or names no declared subtype
OwnerCallWithInvalidType ==
    /\ call.made /\ lib = "extended" /\ record.type = "Owner"
    /\ GetProp(call.before, "pet").t = "object"
    /\ LET type == GetProp(GetProp(call.before, "pet"), "type")
       IN  type.t # "string" \/ Join(type.s) \notin PetSubtypes

\* the events of the last call at addresses under '/pet'
EventsInPet ==
    SelectSeq(call.log, LAMBDA e : Len(e.at) > 1 /\ e.at[1] = "pet")

\* C24, as stated: a polymorphic object whose type is missing, is no string or
\* names no declared subtype gets one 'invalidType' error at the address of its
\* type property and none of its properties is processed (no validator, no
\* write), while the validators of the object itself, the other properties of
\* the record and the validators of the record still run
InvalidTypeStopsDescent ==
    OwnerCallWithInvalidType =>
        /\ call.outcome = "returned"
        /\ Len(EventsInPet) = 1
        /\ EventsInPet[1].ev = "engine" /\ EventsInPet[1].at = <<"pet", "type">>
        /\ "/pet/type" \in DOMAIN call.errors
        /\ call.errors["/pet/type"] = <<"Missing or invalid type.">>
        /\ GetProp(record.value, "pet") = GetProp(call.before, "pet")
        /\ Len(RuleEventsAt(<<"pet">>, "field")) > 0
        /\ Len(RuleEventsAt(<<>>, "record")) > 0
        /\ GetProp(call.before, "tags").t = "object" =>
              Len(RuleEventsAt(<<"tags">>, "field")) > 0

\* an Owner whose pet is { type: 'type' }: 'type' is a property of the
\* polymorphic object, so no error is reported at '/pet/type'
InvalidTypeStopsDescentFailure ==
    /\ call.made /\ lib = "extended" /\ record.type = "Owner"
    /\ call.outcome = "returned"
    /\ GetProp(call.before, "pet") = ObjOf(<< <<"type", Str(<<"t", "y", "p", "e">>)>> >>)
    /\ "/pet/type" \notin DOMAIN call.errors
    /\ \A i \in 1..Len(call.log) : call.log[i].ev # "engine"

\* the validator each subtype of 'pet' declares, and its property
SubtypeValidator(subtype) == IF subtype = "Dog" THEN "validator2" ELSE "validator3"
SubtypeField(subtype) == IF subtype = "Dog" THEN "name" ELSE "lives"

\* C25: in a polymorphic object the nested properties of a subtype are visited
\* (at '<address>/<Subtype>:<property>') and its validators run if and only if
\* the type property names that subtype; the validators of the subtype run after
\* all its nested properties, on the object itself as they left it; no property
\* and no validator of another subtype is touched
SelectedSubtypeOnly ==
    (call.made /\ lib = "extended" /\ record.type = "Owner") =>
        /\ call.outcome = "returned"
        /\ LET pet == GetProp(call.before, "pet")
               type == GetProp(pet, "type")
               selected == {T \in PetSubtypes :
                               pet.t = "object" /\ type.t = "string" /\ Join(type.s) = T}
               chain == RuleEventsAt(<<"pet">>, "subtype")
           IN  /\ \A T \in PetSubtypes :
                     /\ (T \in selected) <=>
                           \E i \in 1..Len(call.log) :
                               /\ call.log[i].ev = "rule"
                               /\ call.log[i].at = <<"pet", T \o ":" \o SubtypeField(T)>>
                               /\ call.log[i].slot = <<"pet", SubtypeField(T)>>
                     /\ (T \in selected) <=>
                           \E i \in 1..Len(chain) : chain[i].id = SubtypeValidator(T)
               /\ selected = {} => Len(chain) = 0
               /\ \A T \in selected : Ids(chain) = <<"object", SubtypeValidator(T)>>
               /\ \A i \in 1..Len(chain) :
                     /\ chain[i].arg = GetProp(record.value, "pet")
                     /\ chain[i].stand = [pointer |-> <<"pet">>, stack |-> 1, chain |-> << <<>> >>]
               /\ \A i, j \in 1..Len(call.log) :
                     (/\ call.log[i].kind = "subtype"
                      /\ Len(call.log[j].at) = 2 /\ call.log[j].at[1] = "pet") => j < i

\* an Owner whose pet is a Dog with a name to trim: the name was written at
\* '/pet/Dog:name' before the validators of Dog ran on the pet
SelectedSubtypeOnlyWitness ==
    /\ call.made /\ lib = "extended" /\ record.type = "Owner" /\ call.outcome = "returned"
    /\ GetProp(call.before, "pet") =
          ObjOf(<< <<"type", Str(<<"D", "o", "g">>)>>, <<"name", Str(<<" ", "a">>)>> >>)
    /\ Len(WritesAt(<<"pet", "name">>)) = 1
    /\ Ids(RuleEventsAt(<<"pet">>, "subtype")) = <<"object", "validator2">>
    /\ RuleEventsAt(<<"pet">>, "subtype")[1].arg =
          ObjOf(<< <<"type", Str(<<"D", "o", "g">>)>>, <<"name", Str(<<"a">>)>> >>)

\* the pairs of equal (===) elements of an array
EqualPairs(a) ==
    {p \in (1..Len(a)) \X (1..Len(a)) : p[1] < p[2] /\ StrictEqualSlots(a[p[2]], a[p[1]])}

\* C26: 'noDupes' adds exactly one 'duplicates' error at the address of an array
\* with two equal (===) elements, however many equal pairs there are, and none
\* for an array of distinct elements or a value that is no array
OneDuplicatesError ==
    call.made =>
        \A i \in 1..Len(call.log) :
            LET e == call.log[i]
                key == PtrStr(e.at)
                before == IF key \in DOMAIN e.seen THEN e.seen[key] ELSE <<>>
            IN  (e.ev = "rule" /\ e.id = "noDupes") =>
                    IF e.arg.t = "array" /\ EqualPairs(e.arg.a) # {}
                    THEN /\ DOMAIN e.errs = DOMAIN e.seen \cup {key}
                         /\ \A k \in DOMAIN e.seen \ {key} : e.errs[k] = e.seen[k]
                         /\ e.errs[key] = Append(before, "Contains duplicates.")
                    ELSE e.errs = e.seen

\* an Exam with the scores [1, 1, 1], three equal pairs: one message at '/scores'
OneDuplicatesErrorWitness ==
    /\ call.made /\ record.type = "Exam" /\ call.outcome = "returned"
    /\ GetProp(call.before, "scores") = Arr(<<Num(1), Num(1), Num(1)>>)
    /\ Cardinality(EqualPairs(GetProp(call.before, "scores").a)) = 3
    /\ \E i \in 1..Len(call.log) : call.log[i].id = "noDupes" /\ Reported(call.log[i])
    /\ call.errors = ("/scores" :> <<"Contains duplicates.">>)

\* the keys of the record that the loop over the properties has nothing to do
\* with: the views of the record type and what the record type does not declare
SkippedKeys ==
    IF lib = "extended" /\ call.before.t = "object"
    THEN {k \in Range(call.before.k) :
            \/ ~HasProperty(TypeDesc, k)
            \/ GetPropertyDesc(TypeDesc, k).view}
    ELSE {}

\* C27: a view is skipped (no descent, no validator, its value in the record
\* stays), and so is every key of the record the record type does not declare:
\* nothing is run, reported or written at or under it
ViewsAndUndeclaredKeysUntouched ==
    call.made =>
        \A k \in SkippedKeys :
            /\ GetProp(record.value, k) = GetProp(call.before, k)
            /\ \A i \in 1..Len(call.log) :
                  LET e == call.log[i]
                  IN  /\ ~(Len(e.at) > 0 /\ e.at[1] = k)
                      /\ ~(Len(e.slot) > 0 /\ e.slot[1] = k)
                      /\ ~(Len(e.stand.pointer) > 0 /\ e.stand.pointer[1] = k)
                      /\ e.ev = "rule" /\ e.kind = "record" => GetProp(e.arg, k) = GetProp(call.before, k)
            /\ \A key \in DOMAIN call.errors :
                  /\ key # PtrStr(<<k>>)
                  /\ \A n \in Range(call.before.k) : key # PtrStr(<<k, n>>)

\* an Exam with a text in the view 'best', a label to trim in the view
\* 'summary' and an undeclared key 'extra': the scores were validated and the
\* three are as they were
ViewsAndUndeclaredKeysUntouchedWitness ==
    /\ call.made /\ record.type = "Exam" /\ call.outcome = "returned"
    /\ SkippedKeys = {"best", "summary", "extra"}
    /\ GetProp(call.before, "best") = Str(<<" ", "a">>)
    /\ GetProp(record.value, "summary") = ObjOf(<< <<"label", Str(<<" ", "a">>)>> >>)
    /\ GetProp(record.value, "extra") = Str(<<" ", "a">>)
    /\ Len(RuleEventsAt(<<"scores">>, "field")) > 0
    /\ call.result = Null

\* the validators a property declares in its sets for the whole value (element
\* FALSE) or in its sets for the elements (element TRUE)
DeclaredIds(propDesc, element) ==
    IF propDesc.validators.null THEN {}
    ELSE UNION {{propDesc.validators.sets[k].val[n].id :
                    n \in {m \in 1..Len(propDesc.validators.sets[k].val) :
                              propDesc.validators.sets[k].val[m].t = "function"}} :
                k \in {j \in 1..Len(propDesc.validators.sets) :
                          StartsWith(propDesc.validators.sets[j].key, ElementPrefix) = element}}

\* C28, as stated: whatever validation sets the caller asks for, a validator a
\* property declares for its elements only never runs on the whole value, and a
\* validator it declares for the whole value only never runs on an element
ElementSetsForElementsOnly ==
    (call.made /\ lib = "extended") =>
        \A i \in 1..Len(call.log) :
            LET e == call.log[i]
            IN  (e.ev = "rule" /\ e.kind \in {"field", "element"}
                    /\ HasProperty(TypeDesc, e.slot[1])) =>
                  LET propDesc == GetPropertyDesc(TypeDesc, e.slot[1])
                  IN  /\ (e.kind = "field" /\ Len(e.slot) = 1) =>
                            e.id \notin DeclaredIds(propDesc, TRUE) \ DeclaredIds(propDesc, FALSE)
                      /\ (e.kind = "element" /\ Len(e.slot) = 2) =>
                            e.id \notin DeclaredIds(propDesc, FALSE) \ DeclaredIds(propDesc, TRUE)

\* an Exam with the scores [1], normalized with the validation sets 'element:*':
\* 'integer', declared for the elements, ran on the array, and 'number', a
\* default for the elements, reported the array at '/scores'
ElementSetsForElementsOnlyFailure ==
    /\ call.made /\ lib = "extended" /\ record.type = "Exam" /\ call.outcome = "returned"
    /\ call.validationSets = Str(ElementPrefix \o StarSet)
    /\ GetProp(call.before, "scores") = Arr(<<Num(1)>>)
    /\ Ids(RuleEventsAt(<<"scores">>, "field")) =
            <<"required", "array", "noDupes", "number", "integer">>
    /\ "/scores" \in DOMAIN call.errors

\* the record of the example: { rank: 0 }, handed to a call of the extended library
RankZeroCall ==
    /\ call.made /\ lib = "extended" /\ record.type = "Ranking"
    /\ call.before = ObjOf(<< <<"rank", Num(0)>> >>)

\* C12, as stated: normalizing { rank: 0 } returns { "/rank": ["Too small."] }
RankZeroTooSmall ==
    RankZeroCall =>
        /\ call.outcome = "returned"
        /\ call.result = [t |-> "errors", e |-> ("/rank" :> <<"Too small.">>)]

\* C12, amended: normalizing { rank: 0 } returns { "/rank": ["Out of range."] },
\* and so does every integer rank below 1 or above 10
RankZeroOutOfRange ==
    /\ RankZeroCall =>
        /\ call.outcome = "returned"
        /\ call.result = [t |-> "errors", e |-> ("/rank" :> <<"Out of range.">>)]
    /\ call.made /\ lib = "extended" /\ record.type = "Ranking"
            /\ call.before = ObjOf(<< <<"rank", Num(11)>> >>)
        => call.result = [t |-> "errors", e |-> ("/rank" :> <<"Out of range.">>)]

RankZeroOutOfRangeWitness ==
    /\ RankZeroCall
    /\ \E i \in 1..Len(call.log) :
          /\ call.log[i].id = "range" /\ call.log[i].arg = Num(0)
          /\ call.log[i].errs # call.log[i].seen
    /\ call.result.t = "errors"

(***************************************************************************)
\* function(_, ctx, value) { ... }: a validator given in place, with no id
AnonymousValidator == [t |-> "function", id |-> "", params |-> Undefined]

SpecAlphabet ==
    {Str(<<"trim">>), Str(<<"lowercase">>), Str(<<"-", "trim">>), Str(<<"-", "lowercase">>),
     Str(<<"nope">>), AnonymousValidator}

InitCV ==
    /\ lib = "extended"
    /\ record = [type |-> "Unknown", value |-> EmptyObj]
    /\ call = NoCall
    /\ prev = NoCall
    /\ mr = MrIdle
    /\ ve = VeIdle
    /\ ae = AeIdle
    /\ \E specs \in ArraysUpTo(SpecAlphabet, MaxSpecs) : cv = [CvIdle EXCEPT !.specs = specs]

\* for (const validatorSpec of validatorSpecs) ...
CompileStep ==
    /\ ~cv.done /\ ~cv.built.fault /\ cv.pos < Len(cv.specs)
    /\ cv' = [cv EXCEPT !.pos = cv.pos + 1,
                        !.before = cv.built,
                        !.built = ApplyValidatorSpec(cv.built, cv.specs[cv.pos + 1])]
    /\ UNCHANGED <<lib, record, call, prev, mr, ve, ae>>

\* the X2UsageError of the loop, or: if (validators.length > 0) sets[setId] = ...
CompileEnd ==
    /\ ~cv.done /\ (cv.built.fault \/ cv.pos = Len(cv.specs))
    /\ cv' = [cv EXCEPT !.done = TRUE,
                        !.compiled = IF cv.built.fault THEN <<>>
                                     ELSE CompileSet(SetEntry(StarSet, cv.specs)).val]
    /\ UNCHANGED <<lib, record, call, prev, mr, ve, ae>>

NextCV == CompileStep \/ CompileEnd

SpecCV == InitCV /\ [][NextCV]_vars

\* the specification the last step read, and the id it removes if it is '-id'
StepSpec == cv.specs[cv.pos]
StepIsMarker == cv.pos > 0 /\ StepSpec.t = "string" /\ Head(StepSpec.s) = "-"
StepRemoves == Join(Tail(StepSpec.s))

RECURSIVE Without(_, _)
\* a list of ids without any occurrence of one id
Without(ids, id) ==
    IF ids = <<>> THEN <<>>
    ELSE IF ids[Len(ids)] = id THEN Without(SubSeq(ids, 1, Len(ids) - 1), id)
    ELSE Append(Without(SubSeq(ids, 1, Len(ids) - 1), id), ids[Len(ids)])

RECURSIVE WithoutLast(_, _)
\* a list of ids without the last occurrence of one id
WithoutLast(ids, id) ==
    IF ids = <<>> THEN <<>>
    ELSE IF ids[Len(ids)] = id THEN SubSeq(ids, 1, Len(ids) - 1)
    ELSE Append(WithoutLast(SubSeq(ids, 1, Len(ids) - 1), id), ids[Len(ids)])

\* C8, as stated: a step on '-id' takes the validator with that id that was
\* added last, and no other, out of the chain built so far
MarkerRemovesMostRecent ==
    StepIsMarker => Ids(cv.built.validators) = WithoutLast(Ids(cv.before.validators), StepRemoves)

\* C8, amended: a step on '-id' takes every validator with that id out of the
\* chain built so far and adds none; a step on the id of a validator adds it at
\* the end
MarkerRemovesEvery ==
    /\ StepIsMarker =>
          /\ Ids(cv.built.validators) = Without(Ids(cv.before.validators), StepRemoves)
          /\ ~cv.built.fault
    /\ (cv.pos > 0 /\ ~StepIsMarker /\ ~cv.built.fault) =>
          Ids(cv.built.validators) = Append(Ids(cv.before.validators), Join(StepSpec.s))
    /\ (cv.done /\ ~cv.built.fault /\ cv.built.validators # <<>>) =>
          Ids(cv.compiled) = Ids(cv.built.validators)

\* '-trim' met a chain with 'trim' in it twice, took both out, and a validator
\* was added after it
MarkerRemovesEveryWitness ==
    /\ cv.pos = 4 /\ ~cv.built.fault
    /\ Ids(cv.built.validators) = <<"lowercase">>
    /\ cv.specs = <<Str(<<"trim">>), Str(<<"trim">>), Str(<<"-", "trim">>), Str(<<"lowercase">>)>>

\* C19, as stated: a step on a function takes it into the chain as a validator
\* without an id, and raises no usage fault
FunctionSpecifierAccepted ==
    (cv.pos > 0 /\ cv.specs[cv.pos] = AnonymousValidator) =>
        /\ ~cv.built.fault
        /\ Len(cv.built.validators) = Len(cv.before.validators) + 1
        /\ cv.built.validators[Len(cv.built.validators)].func = AnonymousValidator

\* validators: [ function(_, ctx, value) { ... } ] ends in the X2UsageError
FunctionSpecifierRefused ==
    /\ cv.specs = <<AnonymousValidator>>
    /\ cv.done /\ cv.pos = 1
    /\ ~cv.before.fault /\ cv.built.fault
    /\ cv.compiled = <<>>

(***************************************************************************)
(* A MessageResolver made for an Accept-Language value, and the templates  *)
(* it is asked to render.                                                  *)
(***************************************************************************)
\* the tags and the weights (in tenths; -1: no ';q=') of the entries of a value
LangTags == {<<"e", "n">>, <<"e", "s">>, <<"e", "n", "-", "U", "S">>, <<"*">>}
Weights == {-1, 0, 5, 9}
LangEntries == {[tag |-> tag, q |-> q] : tag \in LangTags, q \in Weights}

WeightOf(entry) == IF entry.q = -1 THEN 10 ELSE entry.q

\* the text of an entry: 'en', 'en;q=0', 'en;q=0.5'
EntryText(entry) ==
    entry.tag \o (CASE entry.q = -1 -> <<>>
                    [] entry.q = 0 -> QMarker \o <<"0">>
                    [] OTHER -> QMarker \o <<"0", ".", ToString(entry.q)>>)

RECURSIVE HeaderText(_, _)
HeaderText(entries, sep) ==
    IF entries = <<>> THEN <<>>
    ELSE IF Len(entries) = 1 THEN EntryText(entries[1])
    ELSE EntryText(entries[1]) \o sep \o HeaderText(Tail(entries), sep)

Hello == <<"H", "e", "l", "l", "o">>
Hola == <<"H", "o", "l", "a">>
Templates ==
    {Str(Hello),
     ObjOf(<< <<"en", Str(Hello)>>, <<"es", Str(Hola)>> >>),
     ObjOf(<< <<"es", Str(Hola)>>, <<"en", Str(Hello)>> >>),
     ObjOf(<< <<"es", Str(Hola)>> >>),
     ObjOf(<< <<"en-US", Str(Hello)>>, <<"es", Str(Hola)>> >>),
     ObjOf(<< <<"es", Str(Hola)>>, <<"en-US", Str(Hello)>> >>)}

InitMR ==
    /\ lib = "extended"
    /\ record = [type |-> "Unknown", value |-> EmptyObj]
    /\ call = NoCall
    /\ prev = NoCall
    /\ cv = CvIdle
    /\ ve = VeIdle
    /\ ae = AeIdle
    /\ \E entries \in ArraysUpTo(LangEntries, MaxLangs) :
       \E sep \in {<<",">>, <<",", " ">>} :
          \* no entries: no language is given, and normalizeRecord makes the
          \* resolver with (lang || '*')
          mr = [MrIdle EXCEPT !.entries = entries,
                              !.lang = HeaderText(entries, sep),
                              !.langs = MessageResolver(IF entries = <<>> THEN <<"*">>
                                                        ELSE HeaderText(entries, sep))]

\* messageResolver.renderMessage(messageTmpls, params)
renderMessage(messageTmpls, params) ==
    /\ mr' = [mr EXCEPT !.tmpls = messageTmpls,
                        !.rendered = RenderMessage(mr.langs, messageTmpls, params)]
    /\ UNCHANGED <<lib, record, call, prev, cv, ve, ae>>

NextMR == \E messageTmpls \in Templates : renderMessage(messageTmpls, Undefined)

SpecMR == InitMR /\ [][NextMR]_vars

\* the entries of the value that name a language the resolver may use and the
\* templates hold
Usable(i) ==
    /\ mr.entries[i].tag # <<"*">>
    /\ WeightOf(mr.entries[i]) > 0
    /\ HasKey(mr.tmpls, Join(mr.entries[i].tag))

\* C5: of the preferred languages a template object holds, renderMessage gives
\* the template of the one with the highest weight (no weight: 1.0), the one
\* listed first among equals
HighestWeightFirst ==
    (/\ mr.tmpls.t = "object"
     /\ \E i, j \in 1..Len(mr.entries) :
            Usable(i) /\ Usable(j) /\ mr.entries[i].tag # mr.entries[j].tag) =>
        \E i \in 1..Len(mr.entries) :
            /\ Usable(i)
            /\ \A j \in 1..Len(mr.entries) :
                  Usable(j) => \/ WeightOf(mr.entries[j]) < WeightOf(mr.entries[i])
                               \/ WeightOf(mr.entries[j]) = WeightOf(mr.entries[i]) /\ i <= j
            /\ mr.rendered = mr.tmpls.o[Join(mr.entries[i].tag)]

\* 'en;q=0.9,es;q=0.5' and templates for en and es: the template of es
HighestWeightFirstFailure ==
    /\ mr.entries = <<[tag |-> <<"e", "n">>, q |-> 9], [tag |-> <<"e", "s">>, q |-> 5]>>
    /\ mr.tmpls = ObjOf(<< <<"en", Str(Hello)>>, <<"es", Str(Hola)>> >>)
    /\ mr.rendered = Str(Hola)

\* C18: when no language is given, or the value is '*', or every entry of it
\* has the tag '*' or a weight of 0 or less, or names a language the template
\* object has no entry for, renderMessage gives the entry the object declares
\* first
FallbackToFirstDeclared ==
    (/\ mr.tmpls.t = "object"
     /\ \A i \in 1..Len(mr.entries) : ~Usable(i)) =>
        mr.rendered = mr.tmpls.o[mr.tmpls.k[1]]

\* no language, '*' and 'en;q=0, *' with templates for es and en, in this order
FallbackToFirstDeclaredWitness ==
    /\ mr.tmpls = ObjOf(<< <<"es", Str(Hola)>>, <<"en", Str(Hello)>> >>)
    /\ mr.rendered = Str(Hola)
    /\ mr.entries \in {<<>>, <<[tag |-> <<"*">>, q |-> -1]>>,
                       <<[tag |-> <<"e", "n">>, q |-> 0], [tag |-> <<"*">>, q |-> -1]>>}

\* C30, as stated: a language of the preference selects the template the
\* object holds under the same tag, whatever the case of its letters: when one
\* language of the value is usable and the object has a template under its
\* tag, renderMessage gives that template; so 'en-US' with templates for 'es'
\* and 'en-US' gives the one of 'en-US'
SameTagSelectsTemplate ==
    (mr.tmpls.t = "object") =>
        \A i \in 1..Len(mr.entries) :
            (Usable(i) /\ \A j \in 1..Len(mr.entries) :
                              Usable(j) => mr.entries[j].tag = mr.entries[i].tag) =>
                mr.rendered = mr.tmpls.o[Join(mr.entries[i].tag)]

\* 'en-US' and templates for 'es' and 'en-US', in this order: the resolver
\* looks 'en-us' up, finds nothing and gives the template of 'es'
SameTagSelectsTemplateFailure ==
    /\ mr.entries = <<[tag |-> <<"e", "n", "-", "U", "S">>, q |-> -1]>>
    /\ mr.langs = << <<"e", "n", "-", "u", "s">> >>
    /\ mr.tmpls = ObjOf(<< <<"es", Str(Hola)>>, <<"en-US", Str(Hello)>> >>)
    /\ mr.rendered = Str(Hola)

(***************************************************************************)
(* lib/validation-errors.js: a ValidationErrors object that receives       *)
(* addError calls, for the JSON pointers of a record and of two of its     *)
(* elements.                                                               *)
(***************************************************************************)
MaxCalls == 4

ErrorKeys == {"", "/name", "/scores/2"}
ErrorMessages == {"Missing value.", "Invalid value."}

InitVE ==
    /\ lib = "extended"
    /\ record = [type |-> "Unknown", value |-> EmptyObj]
    /\ call = NoCall
    /\ prev = NoCall
    /\ cv = CvIdle
    /\ mr = MrIdle
    /\ ve = VeIdle
    /\ ae = AeIdle

\* errors.addError(ptr, message)
addError(ptr, message) ==
    /\ Len(ve.calls) < MaxCalls
    /\ ve' = [errors |-> VE_addError(ve.errors, ptr, message),
              calls |-> Append(ve.calls, <<ptr, message>>)]
    /\ UNCHANGED <<lib, record, call, prev, cv, mr, ae>>

NextVE == \E ptr \in ErrorKeys, message \in ErrorMessages : addError(ptr, message)

SpecVE == InitVE /\ [][NextVE]_vars

RECURSIVE MessagesFor(_, _)
\* the messages of the calls made for a key, in call order
MessagesFor(calls, key) ==
    IF calls = <<>> THEN <<>>
    ELSE MessagesFor(SubSeq(calls, 1, Len(calls) - 1), key)
            \o (IF calls[Len(calls)][1] = key THEN <<calls[Len(calls)][2]>> ELSE <<>>)

\* C11: after any sequence of addError calls, the list under a key is the
\* sequence of the messages reported for it, in call order and with duplicates;
\* no key holds an empty list; hasErrors is true exactly for the keys that got
\* a message; isEmpty is true exactly when no message was reported.
ErrorsKeepCalls ==
    /\ \A key \in DOMAIN ve.errors :
          /\ ve.errors[key] # <<>>
          /\ ve.errors[key] = MessagesFor(ve.calls, key)
    /\ \A key \in ErrorKeys :
          /\ VE_hasErrors(ve.errors, key) <=> MessagesFor(ve.calls, key) # <<>>
          /\ key \notin DOMAIN ve.errors => MessagesFor(ve.calls, key) = <<>>
    /\ VE_isEmpty(ve.errors) <=> ve.calls = <<>>

\* one key got the same message twice with another message between them, and
\* another key got none
ErrorsKeepCallsWitness ==
    /\ ve.calls = << <<"/name", "Missing value.">>, <<"/name", "Invalid value.">>,
                     <<"/name", "Missing value.">>, <<"", "Invalid value.">> >>
    /\ ve.errors["/name"] = <<"Missing value.", "Invalid value.", "Missing value.">>
    /\ ~VE_hasErrors(ve.errors, "/scores/2")

(***************************************************************************)
(* A validator at work: it holds a validation context for an Account and   *)
(* reports errors with ctx.addErrorFor, with messages and parameters of    *)
(* its own.                                                                *)
(***************************************************************************)
MaxErrors == 2

\* a record type with titles, one of them by language, and a message of its own
AccountDef ==
    [RecordTypeDef(<<"A", "c", "c", "o", "u", "n", "t">>, <<
        [PropDef(<<"owner">>, "string") EXCEPT
            !.title = ObjOf(<< <<"en-US", Str(<<"a", "ccount owner">>)>>,
                               <<"es", Str(<<"t", "itular">>)>> >>)] >>)
     EXCEPT !.title = Str(<<"a", "ccount">>),
            !.validationErrorMessages =
                ObjOf(<< <<"missing", Str(<<"$", "{", "Field", "}", " is required.">>)>> >>)]

AccountLangs == {Undefined, Str(<<"e", "s">>)}
AccountPointers == {<<>>, <<"owner">>}
AccountMessages ==
    {MsgId("missing"),
     <<"$", "{", "Field", "}", ": ", "$", "{", "field", "}", " needs ", "$", "{", "x", "}", ".">>,
     <<"No ", "$", "{", "y", "}", ".">>}
AccountParams ==
    {Undefined,
     ObjOf(<< <<"x", Num(1)>> >>),
     ObjOf(<< <<"field", Str(<<"mine">>)>>, <<"x", Str(<<"b">>)>> >>),
     ObjOf(<< <<"Field", Str(<<"Mine">>)>>, <<"y", Bool(FALSE)>> >>)}

\* the context of the validator: the errors reported so far are its result
AccountContext ==
    [NewContext(ExtendRecordType(AccountDef), MessageResolver(IF Truthy(ae.lang) THEN ae.lang.s ELSE <<"*">>),
                {"*"}, EmptyObj)
     EXCEPT !.result = ae.errors]

InitAE ==
    /\ lib = "extended"
    /\ record = [type |-> "Unknown", value |-> EmptyObj]
    /\ call = NoCall
    /\ prev = NoCall
    /\ cv = CvIdle
    /\ mr = MrIdle
    /\ ve = VeIdle
    /\ \E lang \in AccountLangs : ae = [AeIdle EXCEPT !.lang = lang]

\* ctx.addErrorFor(ptr, message, params), and what the caller finds in its
\* params object afterwards
addErrorFor(tokens, message, params) ==
    /\ Len(ae.calls) < MaxErrors
    /\ \E ptr \in {ParsePointer(AccountContext.recordTypeDesc, tokens)} :
       \E title \in {GetElementTitle(AccountContext, ptr)} :
          ae' = [ae EXCEPT
                    !.errors = AddErrorFor(AccountContext, ptr, message, params).result,
                    !.calls = Append(@, [tokens |-> tokens, message |-> message,
                                         params |-> params,
                                         after |-> ParamsWithTitle(params, title).caller,
                                         seen |-> ae.errors])]
    /\ UNCHANGED <<lib, record, call, prev, cv, mr, ve>>

NextAE ==
    \E tokens \in AccountPointers, message \in AccountMessages, params \in AccountParams :
        addErrorFor(tokens, message, params)

SpecAE == InitAE /\ [][NextAE]_vars

\* the title of the Account or of its owner, for the language of the context
AccountTitle(tokens) ==
    IF tokens = <<>> THEN <<"a", "ccount">>
    ELSE IF ae.lang = Str(<<"e", "s">>) THEN <<"t", "itular">>
    ELSE <<"a", "ccount owner">>

RECURSIVE Filled(_, _, _, _)
\* the text of a template from its piece i on, every ${name} filled in: 'field'
\* and 'Field' with the title, any other name with the parameter of the caller
Filled(tmpl, i, title, params) ==
    IF i > Len(tmpl) THEN ""
    ELSE IF i + 3 <= Len(tmpl) /\ tmpl[i] = "$" /\ tmpl[i + 1] = "{" /\ tmpl[i + 3] = "}"
    THEN (CASE tmpl[i + 2] = "field" -> Join(title)
            [] tmpl[i + 2] = "Field" -> Join(Capitalize(title))
            [] OTHER -> Join(ToStr(GetProp(params, tmpl[i + 2]))))
            \o Filled(tmpl, i + 4, title, params)
    ELSE tmpl[i] \o Filled(tmpl, i + 1, title, params)

\* the errors after the i-th call
ErrorsAfter(i) == IF i = Len(ae.calls) THEN ae.errors ELSE ae.calls[i + 1].seen

\* C17: a message rendered through addErrorFor has 'field', the title of the
\* subject for the language of the call, and 'Field', the title with its first
\* character in upper case; any other placeholder is filled from the params of
\* the caller, a 'field' or 'Field' of the caller gives way to the title, and
\* the params object of the caller is left as it was
TitleParamsInjected ==
    \A i \in 1..Len(ae.calls) :
        LET c == ae.calls[i]
            key == PtrStr(c.tokens)
            tmpl == IF c.message = MsgId("missing")
                    THEN <<"$", "{", "Field", "}", " is required.">>
                    ELSE c.message
            text == Filled(tmpl, 1, AccountTitle(c.tokens), c.params)
        IN  /\ ErrorsAfter(i) =
                  (key :> Append(IF key \in DOMAIN c.seen THEN c.seen[key] ELSE <<>>, text))
                      @@ c.seen
            /\ c.after = c.params

TitleParamsInjectedWitness ==
    /\ ae.lang = Str(<<"e", "s">>)
    /\ Len(ae.calls) = 1
    /\ ae.calls[1].params = ObjOf(<< <<"field", Str(<<"mine">>)>>, <<"x", Str(<<"b">>)>> >>)
    /\ ae.errors = ("/owner" :> <<"Titular: titular needs b.">>)

=============================================================================
